---------------------------- MODULE Spec2Model ----------------------------
(***************************************************************************)
(* The lock-based newsletter scheduler of src/src/scheduler.py, with its    *)
(* signal handler, and the pipeline that the scheduler runs: the graph of  *)
(* src/src/news_aggregator/graph.py (fetch_data, summarize,                *)
(* send_notification) with send_email, validate_email and                  *)
(* format_error_message of src/src/news_aggregator/utils.py.               *)
(*                                                                         *)
(* Spec is the scheduler with its callers; SignalSpec adds the delivery of *)
(* SIGINT / SIGTERM to the main thread; PipelineSpec is one graph.invoke,  *)
(* for every configuration of the credentials, several recipients and an   *)
(* SMTP server that fails a number of connections.                         *)
(*                                                                         *)
(* Threads: caller threads (the web handlers, the main thread) that call   *)
(* start_scheduling, stop_scheduling and get_active_state, and the loop    *)
(* threads that start_scheduling creates with target _scheduler_loop.      *)
(* Labels of the form Lnnn / Snnn / Pnnn / Gnnn are line numbers of        *)
(* src/src/scheduler.py: the statement the thread executes next.           *)
(*                                                                         *)
(* _scheduler_lock is a threading.Lock: not reentrant, no owner check.     *)
(* A "with _scheduler_lock:" block that only reads and assigns fields is   *)
(* one step taken while the lock is free (no other thread can observe its  *)
(* inside, every access to _scheduler_state being made under the lock).    *)
(* The two blocks that call something that can wait while the lock is held *)
(* (start_scheduling 178-217, stop_scheduling 228-237) hold the lock over  *)
(* several steps.                                                          *)
(*                                                                         *)
(* Time is counted in hours.  A datetime is a number in 0..DateTimeMax;    *)
(* adding a timedelta that leaves that range raises OverflowError, as      *)
(* datetime's + does.  An ISO string is a value of its own, << "iso", t >>.*)
(*                                                                         *)
(* Taken as given: the import of line 37 resolves (the module sits in the  *)
(* news_aggregator package, as its first line says), and graph.invoke      *)
(* returns a result or raises an Exception (nothing that "except           *)
(* Exception" lets through).  The interval is whatever the caller passes:  *)
(* start_scheduling validates none of its arguments.                       *)
(***************************************************************************)
EXTENDS Integers, Sequences, FiniteSets, TLC

\* ------------------------------------------------------------------ bounds
\* The wall clock runs from 0 to MaxClock.
MaxClock == 1
\* At most MaxLoops loop threads are created in one behaviour.
MaxLoops == 2
\* The SMTP server fails at most MaxDeliveryFailures connections in a row.
MaxDeliveryFailures == 3
\* At most MaxLibLoops scheduler_loop threads (of
\* news_aggregator/scheduler.py) are created in one behaviour.
MaxLibLoops == 2

\* ------------------------------------------------- constants of the program
\* The largest datetime (datetime.max); the addition of line 124 raises beyond.
DateTimeMax == 100
\* "interval_hours": 24 of the initial _scheduler_state.
DefaultIntervalHours == 24

\* news_aggregator/scheduler.py counts its waits in seconds; here in units
\* of 5 seconds: time.sleep(10) of line 116 and join(timeout=5) of line 135.
SleepTicks == 2
JoinTimeoutTicks == 1
\* datetime's hour is in 0..23 (replace(hour=...), line 40).
HoursPerDay == 24

\* ------------------------------------------------------------------ inputs
Callers == {"c1", "c2"}
Topics == {"t1", "t2"}
Emails == {"e1", "e2"}
\* The start_scheduling calls the callers make: two with an interval every
\* run start can be advanced by, one with an interval that is too large.
StartCalls ==
    { [topic |-> "t1", user_email |-> "e1", interval_hours |-> 1],
      [topic |-> "t2", user_email |-> "e2", interval_hours |-> 2],
      [topic |-> "t2", user_email |-> "e1", interval_hours |-> DateTimeMax + 1] }
LoopIds == 1..MaxLoops

\* Python's None, for the string fields and for the ISO timestamps.
None == "None"
NoTime == << >>
\* No thread: the lock is free.
NoThread == "none"
\* _scheduler_thread = None.
NoLoop == 0

VARIABLES
    now,                \* the wall clock, datetime.now(timezone.utc)
    scheduler_state,    \* _scheduler_state
    stop_event,         \* _stop_event.is_set()
    scheduler_thread,   \* _scheduler_thread: NoLoop or a loop thread
    scheduler_lock,     \* holder of _scheduler_lock, or NoThread
    nthreads,           \* number of threading.Thread objects created so far
    cpc,                \* caller -> the statement it executes next
    cargs,              \* caller -> arguments of its start_scheduling call
    clast,              \* caller -> the call that returned last
    cret,               \* caller -> the bool that call returned
    sigframe,           \* the frame of the main thread that a signal
                        \* interrupted, while the handler runs
    csnap,              \* caller -> the dict get_active_state returned last
                        \* (a reference: the object and, for an object of
                        \* the caller's own, its items)
    lpc,                \* loop thread -> the statement it executes next
    largs,              \* loop thread -> args of _scheduler_loop
    task_start_time,    \* loop thread -> task_start_time of _execute_task
    next_run_time,      \* loop thread -> next_run_time of _scheduler_loop
    result,             \* loop thread -> outcome of graph.invoke
    last_started,       \* history: the arguments of the last start_scheduling
                        \* call that returned True
    stop_called,        \* history: a stop_scheduling call began after that
                        \* call returned
    config,             \* news_aggregator/config.py: the credentials
    delivery_failures,  \* the SMTP server: how many connections it fails
                        \* before it accepts one
    node,               \* the node of the graph that runs next
    graph_state,        \* the GraphState of the run
    calls,              \* how many times each external capability, and
                        \* send_email, has been called in the run
    stop_scheduler,     \* news_aggregator/scheduler.py: stop_scheduler.is_set()
    lib_thread,         \* its scheduler_thread: NoLoop or a loop thread
    schedule_jobs,      \* the jobs of the schedule library: their topics
    active_topic,       \* its active_topic (active_email goes with it)
    last_execution_time,\* its last_execution_time
    next_execution_time,\* its next_execution_time
    lib_nthreads,       \* number of scheduler_loop threads created so far
    tpc,                \* scheduler_loop thread -> the statement it
                        \* executes next
    tjob,               \* scheduler_loop thread -> the topic of the job it
                        \* runs
    tsleep,             \* scheduler_loop thread -> what is left of its
                        \* time.sleep(10)
    wpc,                \* the web handler: the statement it executes next
    wcall               \* the call it is in, its topic, what is left of
                        \* the join timeout, the call it made last and
                        \* what that call returned; history: whether the
                        \* loop thread slept when the call set the event

schedulerVars ==
    << now, sigframe, scheduler_state, stop_event, scheduler_thread,
       scheduler_lock, nthreads, cpc, cargs, clast, cret, csnap, lpc, largs,
       task_start_time, next_run_time, result, last_started, stop_called >>

pipelineVars == << config, delivery_failures, node, graph_state, calls >>

libVars ==
    << stop_scheduler, lib_thread, schedule_jobs, active_topic,
       last_execution_time, next_execution_time, lib_nthreads, tpc, tjob,
       tsleep, wpc, wcall >>

vars == << schedulerVars, pipelineVars, libVars >>

shared == << scheduler_state, stop_event, scheduler_thread >>
callerVars == << cpc, cargs, clast, cret, csnap >>
loopVars == << lpc, largs, task_start_time, next_run_time, result >>
history == << last_started, stop_called >>

\* ------------------------------------------------------------- conversions
\* datetime.isoformat() and datetime.fromisoformat().
isoformat(t) == << "iso", t >>
fromisoformat(s) == s[2]

\* ----------------------------------------------------------------- helpers
NoArgs == [topic |-> None, user_email |-> None, interval_hours |-> 0]

InitialState ==
    [ active |-> FALSE, topic |-> None, user_email |-> None,
      last_execution |-> NoTime, next_execution |-> NoTime,
      interval_hours |-> DefaultIntervalHours,
      status_message |-> "Scheduler is idle." ]

\* The dict object that the global _scheduler_state names.
StateObject == "_scheduler_state"

\* d.copy() with the same object returned in place of a new one.
dict_copy_SameObject(c, d) == [obj |-> StateObject, items |-> d]

\* d.copy(), called by thread c: a new dict object, which only c refers to,
\* with the items d has at the time of the call.
dict_copy(c, d) == [obj |-> c, items |-> d]

\* The caller holds no dict.
NoDict == [obj |-> None, items |-> InitialState]

\* The items read through the reference r: those of _scheduler_state as it
\* is now when r refers to that object, those the object of r was given
\* otherwise.
Items(r) == IF r.obj = StateObject THEN scheduler_state ELSE r.items

\* Thread.is_alive(): started and its target has not returned.
is_alive(l) == l # NoLoop /\ lpc[l] \notin {"unborn", "dead"}

\* The loop has not reached its finally block: it can still start a run.
CanStillRun(l) == is_alive(l) /\ lpc[l] \notin {"L154", "L156", "exit"}

\* The thread that runs the signal handlers: Python runs them in the main
\* thread, between two of its bytecodes.
MainThread == "c1"

\* No handler is running.
NoFrame == [pc |-> "none", args |-> NoArgs, last |-> "none", ret |-> FALSE,
            snap |-> NoDict]

\* Thread c runs _handle_signal.
InHandler(c) == c = MainThread /\ sigframe # NoFrame

\* ------------------------------------------------- values of the pipeline
\* A message: the pieces of its text and, of the words that
\* format_error_message looks for, those its lower-cased text contains.
\* NoError stands for the None of GraphState's "error".
Lit(text, words) == [text |-> << text >>, has |-> words]
Concat(a, b) == [text |-> a.text \o b.text, has |-> a.has \cup b.has]
NoError == [text |-> << >>, has |-> {}]

\* GraphState(...) as the callers of graph.invoke build it: empty results,
\* empty summary and HTML, no error.
GraphState(topic, user_email, timestamp) ==
    [ topic |-> topic, tavily_results |-> << >>,
      structured_summary |-> << >>, html_content |-> << >>,
      error |-> NoError, user_email |-> user_email, timestamp |-> timestamp ]

\* TAVILY_API_KEY and GEMINI_API_KEY are None until they are set.
NoConfig == [ TAVILY_API_KEY |-> "", GEMINI_API_KEY |-> "",
              SENDER_EMAIL |-> "", SENDER_APP_PASSWORD |-> "" ]

\* The calls made so far: how many of each, and what each generate_content
\* call did ("text", "blocked" or "raises"), in order.
NoCalls == [ search |-> 0, generate |-> 0, send_email |-> 0, smtp |-> 0,
             generated |-> << >> ]

\* No run of the graph is in progress.
PipelineIdle ==
    /\ config = NoConfig
    /\ delivery_failures = 0
    /\ node = "none"
    /\ graph_state = GraphState("", << >>, "")
    /\ calls = NoCalls

SchedulerInit ==
    /\ now = 0
    /\ sigframe = NoFrame
    /\ scheduler_state = InitialState
    /\ stop_event = FALSE
    /\ scheduler_thread = NoLoop
    /\ scheduler_lock = NoThread
    /\ nthreads = 0
    /\ cpc = [c \in Callers |-> "idle"]
    /\ cargs = [c \in Callers |-> NoArgs]
    /\ clast = [c \in Callers |-> "none"]
    /\ cret = [c \in Callers |-> FALSE]
    /\ csnap = [c \in Callers |-> NoDict]
    /\ lpc = [l \in LoopIds |-> "unborn"]
    /\ largs = [l \in LoopIds |-> NoArgs]
    /\ task_start_time = [l \in LoopIds |-> 0]
    /\ next_run_time = [l \in LoopIds |-> 0]
    /\ result = [l \in LoopIds |-> "none"]
    /\ last_started = NoArgs
    /\ stop_called = FALSE

\* news_aggregator/scheduler.py, lines 13-18, and no thread, no call.
LibLoopIds == 1..MaxLibLoops
NoCall ==
    [name |-> "none", topic |-> None, join |-> 0, last |-> "none",
     ret |-> "none", idle |-> FALSE]
LibIdle ==
    /\ stop_scheduler = FALSE
    /\ lib_thread = NoLoop
    /\ schedule_jobs = << >>
    /\ active_topic = None
    /\ last_execution_time = NoTime
    /\ next_execution_time = NoTime
    /\ lib_nthreads = 0
    /\ tpc = [t \in LibLoopIds |-> "unborn"]
    /\ tjob = [t \in LibLoopIds |-> None]
    /\ tsleep = [t \in LibLoopIds |-> 0]
    /\ wpc = "idle"
    /\ wcall = NoCall

Init == SchedulerInit /\ PipelineIdle /\ LibIdle

\* The clock advances, whatever the threads do.
Tick ==
    /\ now < MaxClock
    /\ now' = now + 1
    /\ UNCHANGED << pipelineVars, libVars, sigframe, shared, scheduler_lock, nthreads,
                    callerVars, loopVars, history >>

\* ------------------------------------------------ update_scheduler_status
\* with _scheduler_lock: _scheduler_state["status_message"] = message
\* The caller of this operator must not hold the lock: acquiring waits.
update_scheduler_status(message) ==
    /\ scheduler_lock = NoThread
    /\ scheduler_state' = [scheduler_state EXCEPT !.status_message = message]

\* ------------------------------------------------------------ _execute_task
\* The outcomes of graph.invoke(inputs): a result without error, a result
\* with an error, an exception (caught at line 80).
InvokeOutcomes == {"ok", "error", "raised"}

\* The status line 74, 78 or 85 writes for an outcome of graph.invoke.
TaskStatus(outcome) ==
    CASE outcome = "ok" -> "Task completed successfully."
      [] outcome = "error" -> "Task failed: error"
      [] OTHER -> "Task failed with exception: error"

Goto(l, label) == lpc' = [lpc EXCEPT ![l] = label]

\* line 39: task_start_time = datetime.now(timezone.utc)
ExecuteTask_L39(l) ==
    /\ lpc[l] = "L39"
    /\ task_start_time' = [task_start_time EXCEPT ![l] = now]
    /\ Goto(l, "L41")
    /\ UNCHANGED << pipelineVars, libVars, now, sigframe, shared, scheduler_lock, nthreads, callerVars, largs,
                    next_run_time, result, history >>

\* line 41: update_scheduler_status("Task execution started.")
ExecuteTask_L41(l) ==
    /\ lpc[l] = "L41"
    /\ update_scheduler_status("Task execution started.")
    /\ Goto(l, "L62")
    /\ UNCHANGED << pipelineVars, libVars, now, sigframe, stop_event, scheduler_thread, scheduler_lock, nthreads,
                    callerVars, largs, task_start_time, next_run_time, result,
                    history >>

\* lines 62-63 with line 67 inside the "with" block: the loop thread keeps
\* the lock when it goes on to invoke the graph.
ExecuteTask_L62_HoldsLock(l) ==
    /\ lpc[l] = "L62"
    /\ scheduler_lock = NoThread
    /\ scheduler_lock' = "loop"
    /\ scheduler_state' = [scheduler_state EXCEPT
            !.last_execution = isoformat(task_start_time[l])]
    /\ Goto(l, "L67")
    /\ UNCHANGED << pipelineVars, libVars, now, sigframe, stop_event, scheduler_thread, nthreads, callerVars,
                    largs, task_start_time, next_run_time, result, history >>

\* lines 62-63 writing the time of the write, not task_start_time.
ExecuteTask_L62_WritesNow(l) ==
    /\ lpc[l] = "L62"
    /\ scheduler_lock = NoThread
    /\ scheduler_state' = [scheduler_state EXCEPT
            !.last_execution = isoformat(now)]
    /\ Goto(l, "L67")
    /\ UNCHANGED << pipelineVars, libVars, now, sigframe, stop_event, scheduler_thread, scheduler_lock, nthreads,
                    callerVars, largs, task_start_time, next_run_time, result,
                    history >>

\* lines 62-63: last_execution is written before the graph is invoked.
ExecuteTask_L62(l) ==
    /\ lpc[l] = "L62"
    /\ scheduler_lock = NoThread
    /\ scheduler_state' = [scheduler_state EXCEPT
            !.last_execution = isoformat(task_start_time[l])]
    /\ Goto(l, "L67")
    /\ UNCHANGED << pipelineVars, libVars, now, sigframe, stop_event, scheduler_thread, scheduler_lock, nthreads,
                    callerVars, largs, task_start_time, next_run_time, result,
                    history >>

\* line 67: result = graph.invoke(inputs); the clock may advance meanwhile.
ExecuteTask_L67(l) ==
    /\ lpc[l] = "L67"
    /\ \E outcome \in InvokeOutcomes : result' = [result EXCEPT ![l] = outcome]
    /\ Goto(l, "L71")
    /\ UNCHANGED << pipelineVars, libVars, now, sigframe, shared, scheduler_lock, nthreads, callerVars, largs,
                    task_start_time, next_run_time, history >>

\* lines 71-90 without the "except Exception" of line 80: an exception of
\* graph.invoke reaches the "except" of line 147.
ExecuteTask_L71_NoExcept(l) ==
    /\ lpc[l] = "L71"
    /\ IF result[l] = "raised"
          THEN /\ Goto(l, "L149")
               /\ UNCHANGED scheduler_state
          ELSE /\ update_scheduler_status(TaskStatus(result[l]))
               /\ Goto(l, "L113")
    /\ result' = [result EXCEPT ![l] = "none"]
    /\ UNCHANGED << pipelineVars, libVars, now, sigframe, stop_event, scheduler_thread, scheduler_lock, nthreads,
                    callerVars, largs, task_start_time, next_run_time, history >>

\* _execute_task that would mark the schedule inactive after a run that
\* did not succeed.
ExecuteTask_L71_Deactivates(l) ==
    /\ lpc[l] = "L71"
    /\ scheduler_lock = NoThread
    /\ scheduler_state' = [scheduler_state EXCEPT
            !.status_message = TaskStatus(result[l]),
            !.active = (result[l] = "ok")]
    /\ result' = [result EXCEPT ![l] = "none"]
    /\ Goto(l, "L113")
    /\ UNCHANGED << pipelineVars, libVars, now, sigframe, stop_event, scheduler_thread, scheduler_lock, nthreads,
                    callerVars, largs, task_start_time, next_run_time, history >>

\* lines 71-90: the status of the outcome; _execute_task returns to the
\* while condition of line 113 (from line 109 and from line 145 alike).
ExecuteTask_L71(l) ==
    /\ lpc[l] = "L71"
    /\ update_scheduler_status(TaskStatus(result[l]))
    /\ result' = [result EXCEPT ![l] = "none"]
    /\ Goto(l, "L113")
    /\ UNCHANGED << pipelineVars, libVars, now, sigframe, stop_event, scheduler_thread, scheduler_lock, nthreads,
                    callerVars, largs, task_start_time, next_run_time, history >>

\* ---------------------------------------------------------- _scheduler_loop
\* line 104: update_scheduler_status("Scheduler active. ..."), then the
\* initial _execute_task of line 109.
Loop_L104(l) ==
    /\ lpc[l] = "L104"
    /\ update_scheduler_status("Scheduler active.")
    /\ Goto(l, "L39")
    /\ UNCHANGED << pipelineVars, libVars, now, sigframe, stop_event, scheduler_thread, scheduler_lock, nthreads,
                    callerVars, largs, task_start_time, next_run_time, result,
                    history >>

\* line 113: while not _stop_event.is_set()
Loop_L113(l) ==
    /\ lpc[l] = "L113"
    /\ Goto(l, IF stop_event THEN "L154" ELSE "L116")
    /\ UNCHANGED << pipelineVars, libVars, now, sigframe, shared, scheduler_lock, nthreads, callerVars, largs,
                    task_start_time, next_run_time, result, history >>

\* lines 116-124: the next run time, from the last_execution that
\* get_active_state() reports (the current time when there is none).
NextRunTime_FromNow(last_exec_iso, interval_hours, clock) ==
    clock + interval_hours

NextRunTime(last_exec_iso, interval_hours, clock) ==
    (IF last_exec_iso # NoTime THEN fromisoformat(last_exec_iso) ELSE clock)
        + interval_hours

\* lines 116-124: get_active_state() under the lock, then the addition; a
\* sum beyond datetime.max raises OverflowError, caught at line 147.
Loop_L116(l) ==
    /\ lpc[l] = "L116"
    /\ scheduler_lock = NoThread
    /\ LET t == NextRunTime(scheduler_state.last_execution,
                            largs[l].interval_hours, now)
       IN IF t > DateTimeMax
             THEN /\ Goto(l, "L149")
                  /\ UNCHANGED next_run_time
             ELSE /\ Goto(l, "L126")
                  /\ next_run_time' = [next_run_time EXCEPT ![l] = t]
    /\ UNCHANGED << pipelineVars, libVars, now, sigframe, shared, scheduler_lock, nthreads, callerVars, largs,
                    task_start_time, result, history >>

\* lines 126-127: next_execution is written.
Loop_L126(l) ==
    /\ lpc[l] = "L126"
    /\ scheduler_lock = NoThread
    /\ scheduler_state' = [scheduler_state EXCEPT
            !.next_execution = isoformat(next_run_time[l])]
    /\ Goto(l, "L130")
    /\ UNCHANGED << pipelineVars, libVars, now, sigframe, stop_event, scheduler_thread, scheduler_lock, nthreads,
                    callerVars, largs, task_start_time, next_run_time, result,
                    history >>

\* line 130 leaving the status of a failed run in place.
Loop_L130_KeepsFailure(l) ==
    /\ lpc[l] = "L130"
    /\ IF scheduler_state.status_message \in
             {"Task failed: error", "Task failed with exception: error"}
          THEN scheduler_lock = NoThread /\ UNCHANGED scheduler_state
          ELSE update_scheduler_status("Waiting for next execution.")
    /\ Goto(l, "L133")
    /\ UNCHANGED << pipelineVars, libVars, now, sigframe, stop_event, scheduler_thread, scheduler_lock, nthreads,
                    callerVars, largs, task_start_time, next_run_time, result,
                    history >>

\* line 130: update_scheduler_status("Waiting for next execution at ...")
Loop_L130(l) ==
    /\ lpc[l] = "L130"
    /\ update_scheduler_status("Waiting for next execution.")
    /\ Goto(l, "L133")
    /\ UNCHANGED << pipelineVars, libVars, now, sigframe, stop_event, scheduler_thread, scheduler_lock, nthreads,
                    callerVars, largs, task_start_time, next_run_time, result,
                    history >>

\* lines 133-137: the thread waits on the stop event, in slices of at most
\* 60 seconds, until the next run time is reached or the event is set.
Loop_L133(l) ==
    /\ lpc[l] = "L133"
    /\ now >= next_run_time[l] \/ stop_event
    /\ Goto(l, "L139")
    /\ UNCHANGED << pipelineVars, libVars, now, sigframe, shared, scheduler_lock, nthreads, callerVars, largs,
                    task_start_time, next_run_time, result, history >>

\* lines 139-145: break on the stop event, else the next _execute_task.
Loop_L139(l) ==
    /\ lpc[l] = "L139"
    /\ Goto(l, IF stop_event THEN "L154" ELSE "L39")
    /\ UNCHANGED << pipelineVars, libVars, now, sigframe, shared, scheduler_lock, nthreads, callerVars, largs,
                    task_start_time, next_run_time, result, history >>

\* lines 147-149: except Exception: the status of the crash.
Loop_L149(l) ==
    /\ lpc[l] = "L149"
    /\ update_scheduler_status("Scheduler loop crashed.")
    /\ Goto(l, "L154")
    /\ UNCHANGED << pipelineVars, libVars, now, sigframe, stop_event, scheduler_thread, scheduler_lock, nthreads,
                    callerVars, largs, task_start_time, next_run_time, result,
                    history >>

\* line 154, in the finally block: update_scheduler_status("Scheduler stopped.")
Loop_L154(l) ==
    /\ lpc[l] = "L154"
    /\ update_scheduler_status("Scheduler stopped.")
    /\ Goto(l, "L156")
    /\ UNCHANGED << pipelineVars, libVars, now, sigframe, stop_event, scheduler_thread, scheduler_lock, nthreads,
                    callerVars, largs, task_start_time, next_run_time, result,
                    history >>

\* lines 156-161: the loop resets active and next_execution on its way out.
LoopReset(state) ==
    [state EXCEPT !.active = FALSE, !.next_execution = NoTime]

Loop_L156(l) ==
    /\ lpc[l] = "L156"
    /\ scheduler_lock = NoThread
    /\ scheduler_state' = LoopReset(scheduler_state)
    /\ Goto(l, "exit")
    /\ UNCHANGED << pipelineVars, libVars, now, sigframe, stop_event, scheduler_thread, scheduler_lock, nthreads,
                    callerVars, largs, task_start_time, next_run_time, result,
                    history >>

\* _scheduler_loop returns: the thread is no longer alive, its frame and
\* (Thread.run deletes them) its arguments are gone.
Loop_Exit(l) ==
    /\ lpc[l] = "exit"
    /\ Goto(l, "dead")
    /\ largs' = [largs EXCEPT ![l] = NoArgs]
    /\ task_start_time' = [task_start_time EXCEPT ![l] = 0]
    /\ next_run_time' = [next_run_time EXCEPT ![l] = 0]
    /\ UNCHANGED << pipelineVars, libVars, now, sigframe, shared, scheduler_lock, nthreads, callerVars, result,
                    history >>

scheduler_loop(l) ==
    \/ Loop_L104(l)
    \/ ExecuteTask_L39(l)
    \/ ExecuteTask_L41(l)
    \/ ExecuteTask_L62(l)
    \/ ExecuteTask_L67(l)
    \/ ExecuteTask_L71(l)
    \/ Loop_L113(l)
    \/ Loop_L116(l)
    \/ Loop_L126(l)
    \/ Loop_L130(l)
    \/ Loop_L133(l)
    \/ Loop_L139(l)
    \/ Loop_L149(l)
    \/ Loop_L154(l)
    \/ Loop_L156(l)
    \/ Loop_Exit(l)

\* --------------------------------------------------------- start_scheduling
StartLabels == {"S178", "S179", "S184", "S186", "S187", "S188", "S196",
                "S197", "S208", "S217"}

CGoto(c, label) == cpc' = [cpc EXCEPT ![c] = label]

\* A call returns: the lock of the "with" block is released on the way out.
\* The caller holds the returned value until it goes on (Resume).
Return(c, call, value) ==
    /\ CGoto(c, "ret")
    /\ cargs' = [cargs EXCEPT ![c] = NoArgs]
    /\ clast' = [clast EXCEPT ![c] = call]
    /\ cret' = [cret EXCEPT ![c] = value]

\* A caller calls start_scheduling(graph, topic, user_email, interval_hours).
\* (Every call that may create a thread is counted against MaxLoops.)
CallStart(c) ==
    /\ cpc[c] = "idle"
    /\ nthreads + Cardinality({d \in Callers :
            \/ cpc[d] \in StartLabels
            \/ InHandler(d) /\ sigframe.pc \in StartLabels}) < MaxLoops
    /\ \E args \in StartCalls : cargs' = [cargs EXCEPT ![c] = args]
    /\ CGoto(c, "S178")
    /\ UNCHANGED << pipelineVars, libVars, now, sigframe, shared, scheduler_lock, nthreads, clast, cret, csnap,
                    loopVars, history >>

\* line 178: with _scheduler_lock (the call waits while the lock is held).
Start_L178(c) ==
    /\ cpc[c] = "S178"
    /\ scheduler_lock = NoThread
    /\ scheduler_lock' = c
    /\ CGoto(c, "S179")
    /\ UNCHANGED << pipelineVars, libVars, now, sigframe, shared, nthreads, cargs, clast, cret, csnap, loopVars,
                    history >>

\* lines 179-181 without the test of "active".
Start_L179_NoActiveCheck(c) ==
    /\ cpc[c] = "S179"
    /\ scheduler_lock = c
    /\ CGoto(c, "S184")
    /\ UNCHANGED << pipelineVars, libVars, now, sigframe, shared, scheduler_lock, nthreads, cargs, clast, cret,
                    csnap, loopVars, history >>

\* lines 179-181 replacing an active schedule: the call goes on to create
\* its thread without stopping the loop that runs.
Start_L179_ReplacesActive(c) ==
    /\ cpc[c] = "S179"
    /\ scheduler_lock = c
    /\ CGoto(c, IF scheduler_state["active"] THEN "S196" ELSE "S184")
    /\ UNCHANGED << pipelineVars, libVars, now, sigframe, shared, scheduler_lock, nthreads, cargs, clast, cret,
                    csnap, loopVars, history >>

\* lines 179-181: an active scheduler makes the call return False.
Start_L179(c) ==
    /\ cpc[c] = "S179"
    /\ scheduler_lock = c
    /\ IF scheduler_state["active"]
          THEN /\ Return(c, "start", FALSE)
               /\ scheduler_lock' = NoThread
          ELSE /\ CGoto(c, "S184")
               /\ UNCHANGED << scheduler_lock, cargs, clast, cret >>
    /\ UNCHANGED << pipelineVars, libVars, now, sigframe, shared, nthreads, csnap, loopVars, history >>

\* line 184: if _scheduler_thread and _scheduler_thread.is_alive()
Start_L184(c) ==
    /\ cpc[c] = "S184"
    /\ scheduler_lock = c
    /\ CGoto(c, IF is_alive(scheduler_thread) THEN "S186" ELSE "S196")
    /\ UNCHANGED << pipelineVars, libVars, now, sigframe, shared, scheduler_lock, nthreads, cargs, clast, cret,
                    csnap, loopVars, history >>

\* line 186: _stop_event.set()
Start_L186(c) ==
    /\ cpc[c] = "S186"
    /\ scheduler_lock = c
    /\ stop_event' = TRUE
    /\ CGoto(c, "S187")
    /\ UNCHANGED << pipelineVars, libVars, now, sigframe, scheduler_state, scheduler_thread, scheduler_lock,
                    nthreads, cargs, clast, cret, csnap, loopVars, history >>

\* line 187: _scheduler_thread.join(timeout=5.0), made with the lock held. It
\* returns when the thread has ended or when the timeout has expired.
Start_L187(c) ==
    /\ cpc[c] = "S187"
    /\ scheduler_lock = c
    /\ CGoto(c, "S188")
    /\ UNCHANGED << pipelineVars, libVars, now, sigframe, shared, scheduler_lock, nthreads, cargs, clast, cret,
                    csnap, loopVars, history >>

\* lines 188-191 without the test of is_alive(): the call goes on.
Start_L188_NoAliveCheck(c) ==
    /\ cpc[c] = "S188"
    /\ scheduler_lock = c
    /\ CGoto(c, "S196")
    /\ UNCHANGED << pipelineVars, libVars, now, sigframe, shared, scheduler_lock, nthreads, cargs, clast, cret,
                    csnap, loopVars, history >>

\* lines 188-191: a thread that is still alive makes the call return False.
Start_L188(c) ==
    /\ cpc[c] = "S188"
    /\ scheduler_lock = c
    /\ IF is_alive(scheduler_thread)
          THEN /\ Return(c, "start", FALSE)
               /\ scheduler_lock' = NoThread
          ELSE /\ CGoto(c, "S196")
               /\ UNCHANGED << scheduler_lock, cargs, clast, cret >>
    /\ UNCHANGED << pipelineVars, libVars, now, sigframe, shared, nthreads, csnap, loopVars, history >>

\* line 196: _stop_event.clear()
Start_L196(c) ==
    /\ cpc[c] = "S196"
    /\ scheduler_lock = c
    /\ stop_event' = FALSE
    /\ CGoto(c, "S197")
    /\ UNCHANGED << pipelineVars, libVars, now, sigframe, scheduler_state, scheduler_thread, scheduler_lock,
                    nthreads, cargs, clast, cret, csnap, loopVars, history >>

\* lines 197-205 with "topic" left out of the update.
StartUpdate_KeepTopic(state, args) ==
    [state EXCEPT !.active = TRUE,
                  !.user_email = args.user_email,
                  !.interval_hours = args.interval_hours,
                  !.last_execution = NoTime,
                  !.next_execution = NoTime,
                  !.status_message = "Scheduler starting..."]

\* lines 197-205 with "active" left out of the update.
StartUpdate_KeepActive(state, args) ==
    [state EXCEPT !.topic = args.topic,
                  !.user_email = args.user_email,
                  !.interval_hours = args.interval_hours,
                  !.last_execution = NoTime,
                  !.next_execution = NoTime,
                  !.status_message = "Scheduler starting..."]

\* lines 197-205: _scheduler_state.update({...})
StartUpdate(state, args) ==
    [state EXCEPT !.active = TRUE,
                  !.topic = args.topic,
                  !.user_email = args.user_email,
                  !.interval_hours = args.interval_hours,
                  !.last_execution = NoTime,
                  !.next_execution = NoTime,
                  !.status_message = "Scheduler starting..."]

Start_L197(c) ==
    /\ cpc[c] = "S197"
    /\ scheduler_lock = c
    /\ scheduler_state' = StartUpdate(scheduler_state, cargs[c])
    /\ CGoto(c, "S208")
    /\ UNCHANGED << pipelineVars, libVars, now, sigframe, stop_event, scheduler_thread, scheduler_lock, nthreads,
                    cargs, clast, cret, csnap, loopVars, history >>

\* lines 208-214: the new thread is created with the arguments of the call
\* and started; it begins _scheduler_loop at line 102.
Start_L208(c) ==
    /\ cpc[c] = "S208"
    /\ scheduler_lock = c
    /\ nthreads < MaxLoops
    /\ nthreads' = nthreads + 1
    /\ scheduler_thread' = nthreads + 1
    /\ lpc' = [lpc EXCEPT ![nthreads + 1] = "L104"]
    /\ largs' = [largs EXCEPT ![nthreads + 1] = cargs[c]]
    /\ CGoto(c, "S217")
    /\ UNCHANGED << pipelineVars, libVars, now, sigframe, scheduler_state, stop_event, scheduler_lock, cargs,
                    clast, cret, csnap, task_start_time, next_run_time, result,
                    history >>

\* line 217: return True
Start_L217(c) ==
    /\ cpc[c] = "S217"
    /\ scheduler_lock = c
    /\ Return(c, "start", TRUE)
    /\ scheduler_lock' = NoThread
    /\ last_started' = cargs[c]
    /\ stop_called' = FALSE
    /\ UNCHANGED << pipelineVars, libVars, now, sigframe, shared, nthreads, csnap, loopVars >>

start_scheduling(c) ==
    \/ Start_L178(c)
    \/ Start_L179(c)
    \/ Start_L184(c)
    \/ Start_L186(c)
    \/ Start_L187(c)
    \/ Start_L188(c)
    \/ Start_L196(c)
    \/ Start_L197(c)
    \/ Start_L208(c)
    \/ Start_L217(c)

\* ---------------------------------------------------------- stop_scheduling
StopLabels == {"P228", "P229", "P234", "P237", "P240", "P242", "P254"}

\* A caller calls stop_scheduling().
CallStop(c) ==
    /\ cpc[c] = "idle"
    /\ CGoto(c, "P228")
    /\ stop_called' = TRUE
    /\ UNCHANGED << pipelineVars, libVars, now, sigframe, shared, scheduler_lock, nthreads, cargs, clast, cret,
                    csnap, loopVars, last_started >>

\* line 228: with _scheduler_lock
Stop_L228(c) ==
    /\ cpc[c] = "P228"
    /\ scheduler_lock = NoThread
    /\ scheduler_lock' = c
    /\ CGoto(c, "P229")
    /\ UNCHANGED << pipelineVars, libVars, now, sigframe, shared, nthreads, cargs, clast, cret, csnap, loopVars,
                    history >>

\* lines 254-264: the state and the thread handle after a stop.
StopCleanup(state) ==
    [state EXCEPT !.active = FALSE, !.topic = None, !.user_email = None,
                  !.next_execution = NoTime,
                  !.status_message = "Scheduler stopped."]

\* lines 229-231 without the test of "active": the clean-up is made and
\* True returned whatever the state.
Stop_L229_NoActiveCheck(c) ==
    /\ cpc[c] = "P229"
    /\ scheduler_lock = c
    /\ scheduler_state' = StopCleanup(scheduler_state)
    /\ scheduler_thread' = NoLoop
    /\ Return(c, "stop", TRUE)
    /\ scheduler_lock' = NoThread
    /\ UNCHANGED << pipelineVars, libVars, now, sigframe, stop_event, nthreads, csnap, loopVars, history >>

\* lines 229-231 with the stop event set before "active" is tested.
Stop_L229_SetsEventFirst(c) ==
    /\ cpc[c] = "P229"
    /\ scheduler_lock = c
    /\ stop_event' = TRUE
    /\ IF ~scheduler_state["active"]
          THEN /\ Return(c, "stop", FALSE)
               /\ scheduler_lock' = NoThread
          ELSE /\ CGoto(c, "P234")
               /\ UNCHANGED << scheduler_lock, cargs, clast, cret >>
    /\ UNCHANGED << pipelineVars, libVars, now, sigframe, scheduler_state, scheduler_thread, nthreads, csnap,
                    loopVars, history >>

\* lines 229-231: no active scheduler makes the call return False.
Stop_L229(c) ==
    /\ cpc[c] = "P229"
    /\ scheduler_lock = c
    /\ IF ~scheduler_state["active"]
          THEN /\ Return(c, "stop", FALSE)
               /\ scheduler_lock' = NoThread
          ELSE /\ CGoto(c, "P234")
               /\ UNCHANGED << scheduler_lock, cargs, clast, cret >>
    /\ UNCHANGED << pipelineVars, libVars, now, sigframe, shared, nthreads, csnap, loopVars, history >>

\* line 234: update_scheduler_status("Scheduler stopping..."), called inside
\* the "with _scheduler_lock" block of line 228: it acquires the lock again.
Stop_L234(c) ==
    /\ cpc[c] = "P234"
    /\ update_scheduler_status("Scheduler stopping...")
    /\ CGoto(c, "P237")
    /\ UNCHANGED << pipelineVars, libVars, now, sigframe, stop_event, scheduler_thread, scheduler_lock, nthreads,
                    cargs, clast, cret, csnap, loopVars, history >>

\* line 237: _stop_event.set(), and the end of the "with" block.
Stop_L237(c) ==
    /\ cpc[c] = "P237"
    /\ scheduler_lock = c
    /\ stop_event' = TRUE
    /\ scheduler_lock' = NoThread
    /\ CGoto(c, "P240")
    /\ UNCHANGED << pipelineVars, libVars, now, sigframe, scheduler_state, scheduler_thread, nthreads, cargs,
                    clast, cret, csnap, loopVars, history >>

\* line 240: if _scheduler_thread and _scheduler_thread.is_alive()
Stop_L240(c) ==
    /\ cpc[c] = "P240"
    /\ CGoto(c, IF is_alive(scheduler_thread) THEN "P242" ELSE "P254")
    /\ UNCHANGED << pipelineVars, libVars, now, sigframe, shared, scheduler_lock, nthreads, cargs, clast, cret,
                    csnap, loopVars, history >>

\* lines 242-248: _scheduler_thread.join(timeout=10.0): it returns when the
\* thread has ended or when the timeout has expired.
Stop_L242(c) ==
    /\ cpc[c] = "P242"
    /\ CGoto(c, "P254")
    /\ UNCHANGED << pipelineVars, libVars, now, sigframe, shared, scheduler_lock, nthreads, cargs, clast, cret,
                    csnap, loopVars, history >>

\* lines 254-267: the clean-up under the lock, and return True.
Stop_L254(c) ==
    /\ cpc[c] = "P254"
    /\ scheduler_lock = NoThread
    /\ scheduler_state' = StopCleanup(scheduler_state)
    /\ scheduler_thread' = NoLoop
    /\ Return(c, "stop", TRUE)
    /\ UNCHANGED << pipelineVars, libVars, now, sigframe, stop_event, scheduler_lock, nthreads, csnap,
                    loopVars, history >>

\* The part of stop_scheduling that follows the test of line 229.
stop_scheduling_active(c) ==
    \/ Stop_L234(c)
    \/ Stop_L237(c)
    \/ Stop_L240(c)
    \/ Stop_L242(c)
    \/ Stop_L254(c)

stop_scheduling(c) ==
    \/ Stop_L228(c)
    \/ Stop_L229(c)
    \/ stop_scheduling_active(c)

\* --------------------------------------------------------- get_active_state
\* A caller calls get_active_state().
CallGet(c) ==
    /\ cpc[c] = "idle"
    /\ CGoto(c, "G277")
    /\ UNCHANGED << pipelineVars, libVars, now, sigframe, shared, scheduler_lock, nthreads, cargs, clast, cret,
                    csnap, loopVars, history >>

\* lines 277-279: with _scheduler_lock: return _scheduler_state.copy()
get_active_state(c) ==
    /\ cpc[c] = "G277"
    /\ scheduler_lock = NoThread
    /\ csnap' = [csnap EXCEPT ![c] = dict_copy(c, scheduler_state)]
    /\ CGoto(c, "ret")
    /\ clast' = [clast EXCEPT ![c] = "get"]
    /\ UNCHANGED << pipelineVars, libVars, now, sigframe, shared, scheduler_lock, nthreads, cargs, cret,
                    loopVars, history >>

\* The caller goes on after a call: the returned value is dropped.
Resume(c) ==
    /\ cpc[c] = "ret"
    /\ ~InHandler(c)
    /\ CGoto(c, "idle")
    /\ clast' = [clast EXCEPT ![c] = "none"]
    /\ cret' = [cret EXCEPT ![c] = FALSE]
    /\ csnap' = [csnap EXCEPT ![c] = NoDict]
    /\ UNCHANGED << pipelineVars, libVars, now, sigframe, shared, scheduler_lock, nthreads, cargs, loopVars,
                    history >>

\* ----------------------------------------------------------- _handle_signal
\* SIGINT or SIGTERM is delivered: the main thread leaves what it was
\* executing, at whatever statement, and runs _handle_signal, which calls
\* stop_scheduling() (line 292).  (A signal delivered while the handler runs
\* is left out.)
Signal ==
    /\ sigframe = NoFrame
    /\ sigframe' = [pc |-> cpc[MainThread], args |-> cargs[MainThread],
                    last |-> clast[MainThread], ret |-> cret[MainThread],
                    snap |-> csnap[MainThread]]
    /\ CGoto(MainThread, "P228")
    /\ cargs' = [cargs EXCEPT ![MainThread] = NoArgs]
    /\ clast' = [clast EXCEPT ![MainThread] = "none"]
    /\ cret' = [cret EXCEPT ![MainThread] = FALSE]
    /\ csnap' = [csnap EXCEPT ![MainThread] = NoDict]
    /\ stop_called' = TRUE
    /\ UNCHANGED << pipelineVars, libVars, now, shared, scheduler_lock, nthreads,
                    loopVars, last_started >>

\* lines 294-297: stop_scheduling has returned, _handle_signal returns, and
\* the main thread goes on with what it was executing.
HandlerReturn ==
    /\ InHandler(MainThread)
    /\ cpc[MainThread] = "ret"
    /\ CGoto(MainThread, sigframe.pc)
    /\ cargs' = [cargs EXCEPT ![MainThread] = sigframe.args]
    /\ clast' = [clast EXCEPT ![MainThread] = sigframe.last]
    /\ cret' = [cret EXCEPT ![MainThread] = sigframe.ret]
    /\ csnap' = [csnap EXCEPT ![MainThread] = sigframe.snap]
    /\ sigframe' = NoFrame
    /\ UNCHANGED << pipelineVars, libVars, now, shared, scheduler_lock, nthreads,
                    loopVars, history >>

\* ----------------------------------------------------------- specifications
\* A step of a call in progress (not the decision to make a call).
CallerProgress(c) ==
    \/ start_scheduling(c)
    \/ Stop_L228(c)
    \/ Stop_L229(c)
    \/ get_active_state(c)
    \/ Resume(c)

\* The steps the program can take.  stop_scheduling_active is not among them:
\* its first step, Stop_L234, waits for a lock that the same thread holds, so
\* no step of it is ever taken (NoStopPastL234, under SpecAll, says so).
Next ==
    \/ Tick
    \/ \E c \in Callers : CallStart(c) \/ CallStop(c) \/ CallGet(c)
    \/ \E c \in Callers : CallerProgress(c)
    \/ \E l \in LoopIds : scheduler_loop(l)

Spec == Init /\ [][Next]_vars

\* A thread that can take a step again and again does take it: the operating
\* system runs every thread, and no thread starves on the lock.  A caller is
\* never obliged to make a call, and the clock is not obliged to advance.
Fairness ==
    /\ \A c \in Callers : SF_vars(CallerProgress(c))
    /\ \A l \in LoopIds : SF_vars(scheduler_loop(l))

FairSpec == Spec /\ Fairness

\* The program with signals delivered to it.
NextSignal == Next \/ Signal \/ HandlerReturn

SignalSpec == Init /\ [][NextSignal]_vars

\* Every step of the source, those of stop_scheduling_active included.
NextAll == NextSignal \/ \E c \in Callers : stop_scheduling_active(c)

SpecAll == Init /\ [][NextAll]_vars

\* Under SpecAll: no call of stop_scheduling gets past line 234.
NoStopPastL234 == \A c \in Callers : cpc[c] \notin {"P237", "P240", "P242", "P254"}

TypeOK ==
    /\ now \in 0..MaxClock
    /\ sigframe.pc \in {"none", "idle", "G277", "ret"} \cup StartLabels \cup StopLabels
    /\ stop_event \in BOOLEAN
    /\ scheduler_thread \in {NoLoop} \cup LoopIds
    /\ scheduler_lock \in {NoThread} \cup Callers
    /\ nthreads \in 0..MaxLoops
    /\ \A c \in Callers : cpc[c] \in {"idle", "G277", "ret"} \cup StartLabels \cup StopLabels
    /\ scheduler_state.active \in BOOLEAN
    /\ scheduler_state.topic \in Topics \cup {None}
    /\ scheduler_state.user_email \in Emails \cup {None}

\* ================================================================ pipeline
\* The graph of src/src/news_aggregator/graph.py: fetch_data, summarize,
\* send_notification, END (build_graph, lines 402-411), run by graph.invoke
\* on a GraphState.  One step is one node.  The external capabilities
\* (tavily.search, model.generate_content, the SMTP server) answer as they
\* like; "calls" counts how often each is called.  Texts are sequences of
\* pieces.  Taken as given: the texts of exceptions are shorter than 150
\* characters, and the items of a search response are dicts of strings (the
\* preparation of the context, lines 120-145, does not raise).

\* A credential is "" (or None: both are false in an "if not") or set.
Keys == {"", "key"}
\* The sender's address and app password: not set, or one of two values.
SenderSecrets == {"", "s1", "s2"}
Falsy(v) == v = ""

\* The characters of the addresses: a letter, a digit, and punctuation.
LocalChars == {"a", "1", ".", "_", "%", "+", "-"}
DomainChars == {"a", "1", ".", "-"}
Letters == {"a"}

\* The recipients of the runs: none, a well-formed address, an address
\* without a top-level domain, one with a one-letter top-level domain, one
\* without "@".
Recipients ==
    { << >>,
      << "a", "@", "a", ".", "a", "a" >>,
      << "a", "@", "a" >>,
      << "a", "@", "a", ".", "a" >>,
      << "a", "a", ".", "a", "a" >> }

\* utils.validate_email with every non-empty address accepted.
validate_email_AnyNonEmpty(email) == email # << >>

\* utils.validate_email: re.match of
\* ^[a-zA-Z0-9._%+-]+@[a-zA-Z0-9.-]+\.[a-zA-Z]{2,}$
validate_email(email) ==
    /\ email # << >>
    /\ \E i, j \in 1..Len(email) :
          /\ 1 < i /\ i + 1 < j /\ j + 2 <= Len(email)
          /\ \A k \in 1..(i - 1) : email[k] \in LocalChars
          /\ email[i] = "@"
          /\ \A k \in (i + 1)..(j - 1) : email[k] \in DomainChars
          /\ email[j] = "."
          /\ \A k \in (j + 1)..Len(email) : email[k] \in Letters

\* utils.format_error_message: the first pattern that the lower-cased
\* message contains decides ("a or b and c" is "a or (b and c)").
format_error_message(m) ==
    IF m.text = << >>
      THEN Lit("An unknown error occurred.", {})
    ELSE IF "api key" \in m.has
              \/ ("authentication" \in m.has /\ "api" \in m.has)
      THEN Lit("API Key Error. Please check your Tavily and Gemini API keys in the configuration.",
               {"api key", "api", "tavily", "gemini"})
    ELSE IF "tavily" \in m.has /\ "failed" \in m.has
      THEN Lit("Tavily Search Error. Could not fetch data. Check API key or Tavily status.",
               {"api key", "api", "tavily"})
    ELSE IF "gemini" \in m.has \/ "generativemodel" \in m.has
      THEN Lit("Gemini AI Error. Could not process content. Check API key or Google AI status.",
               {"api key", "api", "gemini"})
    ELSE IF "smtp" \in m.has \/ "email" \in m.has \/ "mail" \in m.has
      THEN IF "authentication" \in m.has
             THEN Lit("Email Sending Error: Authentication failed. Please verify sender email and App Password.",
                      {"email", "mail", "authentication", "failed"})
           ELSE IF "connect" \in m.has \/ "connection refused" \in m.has
             THEN Lit("Email Sending Error: Could not connect to the mail server. Check SMTP settings and network.",
                      {"email", "mail", "connect", "smtp"})
           ELSE Lit("Email Sending Error. Please check your email configuration and server status.",
                    {"email", "mail"})
    ELSE IF "network is unreachable" \in m.has
              \/ "connection timed out" \in m.has
      THEN Lit("Network Error. Could not connect to external services. Please check your internet connection.",
               {"connect"})
    ELSE IF "recipient email missing" \in m.has
      THEN Lit("Configuration Error: Recipient email address is not set.",
               {"email", "mail"})
    ELSE IF "blocked by safety filters" \in m.has
              \/ "response blocked" \in m.has
      THEN Lit("Content Generation Error: The AI service blocked the request due to safety filters. Try refining the topic.",
               {"blocked"})
    ELSE Concat(Lit("An error occurred: ", {}), m)

\* The messages that the nodes set without formatting them.
TavilyKeyMissing ==
    Lit("Tavily API key is not configured. Cannot perform search.",
        {"api key", "api", "tavily"})
GeminiKeyMissing ==
    Lit("Gemini API key is not configured. Cannot generate summary.",
        {"api key", "api", "gemini"})
RecipientMissing ==
    Lit("Recipient email address is missing. Cannot send email.",
        {"email", "mail"})
ContentMissing ==
    Lit("Email content (HTML or text) is missing. Cannot send empty email.",
        {"email", "mail"})
\* The message of line 382, before line 386 formats it.
EmailSendingFailed ==
    Lit("Email sending failed. Check sender credentials and logs.",
        {"email", "mail", "failed"})

\* What an external capability raises: any exception, and one whose text
\* speaks of the API key.
Exceptions == { Lit("boom", {}), Lit("Invalid API key", {"api key", "api"}) }

\* ------------------------------------------------------------ fetch_data
Item(url, title) == [url |-> url, title |-> title]

\* response.get('results', []) of tavily.search: nothing, one item, two
\* items with the same URL, an item without URL, one good and one without
\* title.
SearchResponses ==
    { << >>,
      << Item("u1", "t1") >>,
      << Item("u1", "t1"), Item("u1", "t2") >>,
      << Item("", "t3") >>,
      << Item("u1", "t1"), Item("u2", "") >> }

\* lines 74-78: the results that have a URL and a title.
HasUrlAndTitle(res) == res.url # "" /\ res.title # ""
filtered_results(raw_results) == SelectSeq(raw_results, HasUrlAndTitle)

\* lines 32-89.
fetch_tavily_data ==
    /\ node = "fetch_data"
    /\ IF Falsy(config.TAVILY_API_KEY)
          THEN /\ graph_state' = [graph_state EXCEPT !.error = TavilyKeyMissing]
               /\ UNCHANGED calls
          ELSE /\ calls' = [calls EXCEPT !.search = @ + 1]
               /\ \/ \E raw_results \in SearchResponses :
                        graph_state' = [graph_state EXCEPT
                            !.tavily_results = filtered_results(raw_results),
                            !.error = NoError]
                  \/ \E e \in Exceptions :
                        graph_state' = [graph_state EXCEPT
                            !.error = format_error_message(
                                Concat(Lit("Tavily Search Error: ", {"tavily"}), e))]
    /\ node' = "summarize"
    /\ UNCHANGED << config, delivery_failures, schedulerVars, libVars >>

\* -------------------------------------------------------------- summarize
\* lines 110-116: the message and the HTML of a search without results.
no_results_msg(topic) ==
    << "No significant new information found for '", topic,
       "' in the recent search." >>
no_results_html(topic) == << "<p>" >> \o no_results_msg(topic) \o << "</p>" >>

\* What model.generate_content does: it returns a text, returns a response
\* without parts (blocked), or raises.
GenerateOutcomes(texts) ==
    [kind : {"text"}, text : texts, e : {NoError}]
        \cup [kind : {"blocked"}, text : {<< >>}, e : {NoError}]
        \cup [kind : {"raises"}, text : {<< >>}, e : Exceptions]

MarkdownTexts == { << "# markdown" >> }
\* The HTML comes bare or inside a Markdown code fence (three backquotes,
\* written FENCE here).
HtmlTexts == { << "<html>" >>, << "FENCEhtml", "<html>", "FENCE" >> }

\* line 251: .strip().replace(FENCE + "html", "").replace(FENCE, "")
IsNoFence(piece) == piece \notin {"FENCEhtml", "FENCE"}
strip_fences(text) == SelectSeq(text, IsNoFence)

\* lines 244 and 260-265: the HTML that carries the raw summary when the
\* HTML generation failed.
fallback_html(summary_markdown) ==
    << "<pre>" >> \o summary_markdown \o << "</pre>" >>

\* The error of the node when a generate_content call is blocked (lines 191
\* and 239-246) or raises e (lines 200 and 267); call 1 asks for the
\* Markdown, call 2 for the HTML.
blocked_error(call) ==
    IF call = 1
      THEN format_error_message(
               Lit("Content generation blocked by safety filters (SAFETY).",
                   {"blocked by safety filters"}))
      ELSE format_error_message(
               Lit("Gemini HTML generation blocked. Reason: SAFETY.",
                   {"gemini"}))
exception_error(call, e) ==
    IF call = 1
      THEN format_error_message(
               Concat(Lit("Gemini Summarization Error: ", {"gemini"}), e))
      ELSE format_error_message(
               Concat(Lit("Gemini HTML Error: ", {"gemini"}), e))

\* The two calls with the fallback HTML taken for a success: no error is
\* set when the HTML call raises or is blocked.
generate_summary_FallbackIsSuccess ==
    \E md \in GenerateOutcomes(MarkdownTexts) :
      CASE md.kind = "raises" ->
             /\ calls' = [calls EXCEPT !.generate = @ + 1,
                                       !.generated = Append(@, md.kind)]
             /\ graph_state' = [graph_state EXCEPT
                  !.error = exception_error(1, md.e)]
        [] md.kind = "blocked" ->
             /\ calls' = [calls EXCEPT !.generate = @ + 1,
                                       !.generated = Append(@, md.kind)]
             /\ graph_state' = [graph_state EXCEPT
                  !.error = blocked_error(1)]
        [] OTHER ->
             \E html \in GenerateOutcomes(HtmlTexts) :
                /\ calls' = [calls EXCEPT
                       !.generate = @ + 2,
                       !.generated = @ \o << md.kind, html.kind >>]
                /\ CASE html.kind = "raises" ->
                         graph_state' = [graph_state EXCEPT
                           !.structured_summary = md.text,
                           !.html_content = fallback_html(md.text),
                           !.error = NoError]
                    [] html.kind = "blocked" ->
                         graph_state' = [graph_state EXCEPT
                           !.structured_summary = md.text,
                           !.html_content = fallback_html(md.text),
                           !.error = NoError]
                    [] OTHER ->
                         graph_state' = [graph_state EXCEPT
                           !.structured_summary = md.text,
                           !.html_content = strip_fences(html.text),
                           !.error = NoError]

\* lines 148-290: the two calls of model.generate_content.  The second is
\* made only when the first returned a text.
generate_summary ==
    \E md \in GenerateOutcomes(MarkdownTexts) :
      CASE md.kind = "raises" ->
             /\ calls' = [calls EXCEPT !.generate = @ + 1,
                                       !.generated = Append(@, md.kind)]
             /\ graph_state' = [graph_state EXCEPT
                  !.error = exception_error(1, md.e)]
        [] md.kind = "blocked" ->
             /\ calls' = [calls EXCEPT !.generate = @ + 1,
                                       !.generated = Append(@, md.kind)]
             /\ graph_state' = [graph_state EXCEPT
                  !.error = blocked_error(1)]
        [] OTHER ->
             \E html \in GenerateOutcomes(HtmlTexts) :
                /\ calls' = [calls EXCEPT
                       !.generate = @ + 2,
                       !.generated = @ \o << md.kind, html.kind >>]
                /\ CASE html.kind = "raises" ->
                         graph_state' = [graph_state EXCEPT
                           !.structured_summary = md.text,
                           !.html_content = fallback_html(md.text),
                           !.error = exception_error(2, html.e)]
                    [] html.kind = "blocked" ->
                         graph_state' = [graph_state EXCEPT
                           !.structured_summary = md.text,
                           !.html_content = fallback_html(md.text),
                           !.error = blocked_error(2)]
                    [] OTHER ->
                         graph_state' = [graph_state EXCEPT
                           !.structured_summary = md.text,
                           !.html_content = strip_fences(html.text),
                           !.error = NoError]

\* lines 92-290 without the test of the results (lines 109-117): the
\* generation is called with no result at all.
summarize_with_gemini_NoShortCut ==
    /\ node = "summarize"
    /\ IF graph_state.error # NoError
          THEN UNCHANGED << graph_state, calls >>
       ELSE IF Falsy(config.GEMINI_API_KEY)
          THEN /\ graph_state' = [graph_state EXCEPT !.error = GeminiKeyMissing]
               /\ UNCHANGED calls
       ELSE generate_summary
    /\ node' = "send_notification"
    /\ UNCHANGED << config, delivery_failures, schedulerVars, libVars >>

\* lines 92-290: an error is passed through (99-101); the key is required
\* (103-106); no result gives the canned message (108-117); else the
\* generation is called.
summarize_with_gemini ==
    /\ node = "summarize"
    /\ IF graph_state.error # NoError
          THEN UNCHANGED << graph_state, calls >>
       ELSE IF Falsy(config.GEMINI_API_KEY)
          THEN /\ graph_state' = [graph_state EXCEPT !.error = GeminiKeyMissing]
               /\ UNCHANGED calls
       ELSE IF graph_state.tavily_results = << >>
          THEN /\ graph_state' = [graph_state EXCEPT
                    !.structured_summary = no_results_msg(graph_state.topic),
                    !.html_content = no_results_html(graph_state.topic),
                    !.error = NoError]
               /\ UNCHANGED calls
       ELSE generate_summary
    /\ node' = "send_notification"
    /\ UNCHANGED << config, delivery_failures, schedulerVars, libVars >>

\* ------------------------------------------------------- send_notification
\* The SMTP server accepts the n-th connection of the run.
SmtpAccepts(n) == n > delivery_failures

\* What the exception of a refused connection or login says (lines 97-118):
\* the answer of the server, which may quote the login it was given.
SmtpException ==
    [text |-> << "SMTP error for ", config.SENDER_EMAIL, ":",
                 config.SENDER_APP_PASSWORD >>,
     has |-> {"smtp"}]

\* The bound on delivery attempts that a retrying send_email would have.
\* utils.send_email has none; it is taken as large as the number of
\* connections the server can fail in a row, so that a delivery can fail
\* fewer times than the bound and as many times as the bound.
max_attempts == MaxDeliveryFailures

\* utils.send_email as it would be with a retry: it connects again after a
\* failure, max_attempts times at most.
send_email_Retrying(recipient_email, subject, body, html_body) ==
    IF \/ recipient_email = << >>
       \/ ~validate_email(recipient_email)
       \/ Falsy(config.SENDER_EMAIL)
       \/ Falsy(config.SENDER_APP_PASSWORD)
      THEN [success |-> FALSE, connections |-> 0, logged |-> NoError]
    ELSE IF \E n \in 1..max_attempts : SmtpAccepts(calls.smtp + n)
      THEN [success |-> TRUE,
            connections |-> CHOOSE n \in 1..max_attempts :
                /\ SmtpAccepts(calls.smtp + n)
                /\ \A k \in 1..(n - 1) : ~SmtpAccepts(calls.smtp + k),
            logged |-> NoError]
    ELSE [success |-> FALSE, connections |-> max_attempts,
          logged |-> SmtpException]

\* utils.send_email (lines 17-118): the bool it returns, the number of
\* SMTP connections it opens (line 83): none when an input is refused, one
\* otherwise; every exception of the connection is logged and makes it
\* return False.
send_email(recipient_email, subject, body, html_body) ==
    IF \/ recipient_email = << >>
       \/ ~validate_email(recipient_email)
       \/ Falsy(config.SENDER_EMAIL)
       \/ Falsy(config.SENDER_APP_PASSWORD)
      THEN [success |-> FALSE, connections |-> 0, logged |-> NoError]
    ELSE IF SmtpAccepts(calls.smtp + 1)
      THEN [success |-> TRUE, connections |-> 1, logged |-> NoError]
    ELSE [success |-> FALSE, connections |-> 1, logged |-> SmtpException]

\* str.lower() of a piece of text.
lower(piece) == IF piece = "<!DOCTYPE html>" THEN "<!doctype html>" ELSE piece

\* lines 329-366: the HTML is wrapped in the template when "<!DOCTYPE html>"
\* is not in html_body.lower().
email_html(html_body) ==
    IF html_body # << >>
         /\ \A k \in 1..Len(html_body) : lower(html_body[k]) # "<!DOCTYPE html>"
      THEN << "<!DOCTYPE html>", "<div class=content>" >> \o html_body
               \o << "</div>" >>
      ELSE html_body

\* line 326.
email_subject(topic, timestamp) ==
    << "Daily Newsletter: Updates on '", topic, "' - ", timestamp >>

\* send_email_node that would report what send_email has logged.
dispatch_email_ReportsException ==
    IF graph_state.user_email = << >>
      THEN /\ graph_state' = [graph_state EXCEPT !.error = RecipientMissing]
           /\ UNCHANGED calls
    ELSE IF graph_state.html_content = << >>
              /\ graph_state.structured_summary = << >>
      THEN /\ graph_state' = [graph_state EXCEPT !.error = ContentMissing]
           /\ UNCHANGED calls
    ELSE LET sent == send_email(
                         graph_state.user_email,
                         email_subject(graph_state.topic,
                                       graph_state.timestamp),
                         graph_state.structured_summary,
                         email_html(graph_state.html_content))
         IN /\ calls' = [calls EXCEPT !.send_email = @ + 1,
                                      !.smtp = @ + sent.connections]
            /\ IF sent.success
                  THEN UNCHANGED graph_state
                  ELSE graph_state' = [graph_state EXCEPT
                         !.error = IF sent.logged = NoError
                                     THEN format_error_message(EmailSendingFailed)
                                     ELSE sent.logged]

\* send_email_node that would not look at what send_email returns.
dispatch_email_IgnoresFailure ==
    IF graph_state.user_email = << >>
      THEN /\ graph_state' = [graph_state EXCEPT !.error = RecipientMissing]
           /\ UNCHANGED calls
    ELSE IF graph_state.html_content = << >>
              /\ graph_state.structured_summary = << >>
      THEN /\ graph_state' = [graph_state EXCEPT !.error = ContentMissing]
           /\ UNCHANGED calls
    ELSE LET sent == send_email(
                         graph_state.user_email,
                         email_subject(graph_state.topic,
                                       graph_state.timestamp),
                         graph_state.structured_summary,
                         email_html(graph_state.html_content))
         IN /\ calls' = [calls EXCEPT !.send_email = @ + 1,
                                      !.smtp = @ + sent.connections]
            /\ UNCHANGED graph_state

\* lines 304-386: what send_email_node does when no error is set.
dispatch_email ==
    IF graph_state.user_email = << >>
      THEN /\ graph_state' = [graph_state EXCEPT !.error = RecipientMissing]
           /\ UNCHANGED calls
    ELSE IF graph_state.html_content = << >>
              /\ graph_state.structured_summary = << >>
      THEN /\ graph_state' = [graph_state EXCEPT !.error = ContentMissing]
           /\ UNCHANGED calls
    ELSE LET sent == send_email(
                         graph_state.user_email,
                         email_subject(graph_state.topic,
                                       graph_state.timestamp),
                         graph_state.structured_summary,
                         email_html(graph_state.html_content))
         IN /\ calls' = [calls EXCEPT !.send_email = @ + 1,
                                      !.smtp = @ + sent.connections]
            /\ IF sent.success
                  THEN UNCHANGED graph_state
                  ELSE graph_state' = [graph_state EXCEPT
                         !.error = format_error_message(EmailSendingFailed)]

\* lines 293-386 without the pre-check of lines 300-302.
send_email_node_NoErrorCheck ==
    /\ node = "send_notification"
    /\ dispatch_email
    /\ node' = "END"
    /\ UNCHANGED << config, delivery_failures, schedulerVars, libVars >>

\* lines 293-386: an error is passed through (300-302).
send_email_node ==
    /\ node = "send_notification"
    /\ IF graph_state.error # NoError
          THEN UNCHANGED << graph_state, calls >>
          ELSE dispatch_email
    /\ node' = "END"
    /\ UNCHANGED << config, delivery_failures, schedulerVars, libVars >>

\* ------------------------------------------------------------ graph.invoke
\* A run: the credentials as they are configured, a recipient, an SMTP
\* server, and graph.invoke called on a new GraphState (the entry point is
\* fetch_data).
PipelineInit ==
    /\ SchedulerInit
    /\ LibIdle
    /\ config \in [ TAVILY_API_KEY : Keys, GEMINI_API_KEY : Keys,
                    SENDER_EMAIL : SenderSecrets,
                    SENDER_APP_PASSWORD : SenderSecrets ]
    /\ delivery_failures \in 0..MaxDeliveryFailures
    /\ node = "fetch_data"
    /\ \E user_email \in Recipients :
          graph_state = GraphState("AI", user_email, "06/11/2026")
    /\ calls = NoCalls

PipelineNext ==
    \/ fetch_tavily_data
    \/ summarize_with_gemini
    \/ send_email_node

PipelineSpec == PipelineInit /\ [][PipelineNext]_vars

\* ------------------------------------------- the runs of one schedule
\* The display time of a run that is not the first of its schedule.
LaterRunTime == "07/11/2026"

\* _execute_task that would pass the result of the previous run on to
\* graph.invoke, with a new timestamp only.
ExecuteTask_Invoke_ReusesResult ==
    /\ node = "END"
    /\ graph_state' = [graph_state EXCEPT !.timestamp = LaterRunTime]
    /\ node' = "fetch_data"
    /\ calls' = NoCalls
    /\ UNCHANGED << config, delivery_failures, schedulerVars, libVars >>

\* _execute_task, lines 50-67 (and run_graph_job, lines 45-56, of
\* news_aggregator/scheduler.py): the next run of the schedule.  inputs is
\* a new GraphState built from the arguments of the schedule (the nodes
\* change neither the topic nor the recipient) and the time of the run;
\* graph.invoke(inputs) enters the graph at fetch_data.  The calls are
\* counted by run.
ExecuteTask_Invoke ==
    /\ node = "END"
    /\ graph_state' = GraphState(graph_state.topic, graph_state.user_email,
                                 LaterRunTime)
    /\ node' = "fetch_data"
    /\ calls' = NoCalls
    /\ UNCHANGED << config, delivery_failures, schedulerVars, libVars >>

RunsNext == PipelineNext \/ ExecuteTask_Invoke

RunsSpec == PipelineInit /\ [][RunsNext]_vars

\* ------------------------------------ news_aggregator/scheduler.py
\* The scheduler built on the schedule library.  One web handler calls
\* start_scheduling(compiled_graph, topic, user_email) and stop_scheduling();
\* compiled_graph is taken as given (line 87 passes).  Labels Lnnn are line
\* numbers of news_aggregator/scheduler.py.
Hours == 0..(HoursPerDay - 1)
LibTopics == {"t1"}
datetime(hour) == << "datetime", hour >>

\* scheduler_thread.is_alive()
lib_is_alive(t) == t # NoLoop /\ tpc[t] \notin {"unborn", "done", "raised"}

LibGoto(t, label) == tpc' = [tpc EXCEPT ![t] = label]
libGlobals ==
    << stop_scheduler, lib_thread, schedule_jobs, active_topic,
       last_execution_time, next_execution_time >>
libThreads == << lib_nthreads, tpc, tjob, tsleep >>

\* The web handler calls start_scheduling: line 85 calls stop_scheduling.
LibCallStart ==
    /\ wpc = "idle"
    /\ lib_nthreads < MaxLibLoops
    /\ \E topic \in LibTopics :
          wcall' = [NoCall EXCEPT !.name = "start", !.topic = topic]
    /\ wpc' = "L132"
    /\ UNCHANGED << schedulerVars, pipelineVars, libGlobals, libThreads >>

\* The web handler calls stop_scheduling.
LibCallStop ==
    /\ wpc = "idle"
    /\ wcall' = [NoCall EXCEPT !.name = "stop"]
    /\ wpc' = "L132"
    /\ UNCHANGED << schedulerVars, pipelineVars, libGlobals, libThreads >>

\* stop_scheduling returns value: to its caller, or to line 87 of
\* start_scheduling, which goes on to lines 94-95.
LibStopReturns(value) ==
    IF wcall.name = "start"
      THEN wpc' = "L94" /\ UNCHANGED wcall
      ELSE /\ wpc' = "idle"
           /\ wcall' = [NoCall EXCEPT !.last = "stop", !.ret = value]

\* line 132: if scheduler_thread is not None and scheduler_thread.is_alive()
\* (else lines 153-155: return False).
LibStop_L132 ==
    /\ wpc = "L132"
    /\ IF lib_is_alive(lib_thread)
          THEN wpc' = "L134" /\ UNCHANGED wcall
          ELSE LibStopReturns("False")
    /\ UNCHANGED << schedulerVars, pipelineVars, libGlobals, libThreads >>

\* lines 134-135: stop_scheduler.set(); the join begins.  History: "idle"
\* records whether the loop thread was inside time.sleep(10) at that moment.
LibStop_L134 ==
    /\ wpc = "L134"
    /\ stop_scheduler' = TRUE
    /\ wcall' = [wcall EXCEPT !.join = JoinTimeoutTicks,
                              !.idle = (tpc[lib_thread] = "L116")]
    /\ wpc' = "L135"
    /\ UNCHANGED << schedulerVars, pipelineVars, lib_thread, schedule_jobs,
                    active_topic, last_execution_time, next_execution_time,
                    libThreads >>

\* line 135: scheduler_thread.join(timeout=5) returns, the thread having
\* ended or the 5 seconds being over.
LibStop_L135 ==
    /\ wpc = "L135"
    /\ ~lib_is_alive(lib_thread) \/ wcall.join = 0
    /\ wpc' = "L142"
    /\ UNCHANGED << schedulerVars, pipelineVars, libGlobals, libThreads,
                    wcall >>

\* line 142: schedule.clear() (lines 138-139 only log).
LibStop_L142 ==
    /\ wpc = "L142"
    /\ schedule_jobs' = << >>
    /\ wpc' = "L145"
    /\ UNCHANGED << schedulerVars, pipelineVars, stop_scheduler, lib_thread,
                    active_topic, last_execution_time, next_execution_time,
                    libThreads, wcall >>

\* lines 145-152: the globals are reset; return True.
LibStop_L145 ==
    /\ wpc = "L145"
    /\ lib_thread' = NoLoop
    /\ active_topic' = None
    /\ last_execution_time' = NoTime
    /\ next_execution_time' = NoTime
    /\ LibStopReturns("True")
    /\ UNCHANGED << schedulerVars, pipelineVars, stop_scheduler,
                    schedule_jobs, libThreads >>

\* lines 94-95: active_topic = topic.
LibStart_L94 ==
    /\ wpc = "L94"
    /\ active_topic' = wcall.topic
    /\ wpc' = "L98"
    /\ UNCHANGED << schedulerVars, pipelineVars, stop_scheduler, lib_thread,
                    schedule_jobs, last_execution_time, next_execution_time,
                    libThreads, wcall >>

\* run_graph_job, lines 33-40, at the hour "hour" of Europe/Paris:
\* last_execution_time is the time of the call, next_execution_time that
\* time without its seconds (35-39) and then with hour + 1 in the place of
\* its hour (line 40): datetime.replace raises ValueError for an hour that
\* is not in 0..23, outside the try block of line 43.
replace_hour_raises(hour) == hour + 1 \notin Hours
run_graph_job_times(hour) ==
    /\ last_execution_time' = datetime(hour)
    /\ next_execution_time' = IF replace_hour_raises(hour)
                                 THEN datetime(hour)
                                 ELSE datetime(hour + 1)

\* line 98: the first run, in the thread of the caller; a ValueError of
\* line 40 leaves start_scheduling.
LibStart_L98 ==
    /\ wpc = "L98"
    /\ \E hour \in Hours :
          /\ run_graph_job_times(hour)
          /\ IF replace_hour_raises(hour)
                THEN /\ wpc' = "idle"
                     /\ wcall' = [NoCall EXCEPT !.last = "start",
                                                !.ret = "raised"]
                ELSE wpc' = "L56" /\ UNCHANGED wcall
    /\ UNCHANGED << schedulerVars, pipelineVars, stop_scheduler, lib_thread,
                    schedule_jobs, active_topic, libThreads >>

\* lines 43-69 of that run: graph.invoke returns a result without error
\* (lines 65-66 set active_topic), one with an error, or raises (line 68).
LibStart_L56 ==
    /\ wpc = "L56"
    /\ \E outcome \in InvokeOutcomes :
          active_topic' = IF outcome = "ok" THEN wcall.topic ELSE active_topic
    /\ wpc' = "L103"
    /\ UNCHANGED << schedulerVars, pipelineVars, stop_scheduler, lib_thread,
                    schedule_jobs, last_execution_time, next_execution_time,
                    libThreads, wcall >>

\* lines 102-108: schedule.every(...).seconds.do(run_graph_job, ...).
LibStart_L103 ==
    /\ wpc = "L103"
    /\ schedule_jobs' = Append(schedule_jobs, wcall.topic)
    /\ wpc' = "L120"
    /\ UNCHANGED << schedulerVars, pipelineVars, stop_scheduler, lib_thread,
                    active_topic, last_execution_time, next_execution_time,
                    libThreads, wcall >>

\* line 120: stop_scheduler.clear().
LibStart_L120 ==
    /\ wpc = "L120"
    /\ stop_scheduler' = FALSE
    /\ wpc' = "L121"
    /\ UNCHANGED << schedulerVars, pipelineVars, lib_thread, schedule_jobs,
                    active_topic, last_execution_time, next_execution_time,
                    libThreads, wcall >>

\* lines 121-124: the thread is created and started; return True.
LibStart_L121 ==
    /\ wpc = "L121"
    /\ lib_nthreads' = lib_nthreads + 1
    /\ lib_thread' = lib_nthreads + 1
    /\ tpc' = [tpc EXCEPT ![lib_nthreads + 1] = "L113"]
    /\ wpc' = "idle"
    /\ wcall' = [NoCall EXCEPT !.last = "start", !.ret = "True"]
    /\ UNCHANGED << schedulerVars, pipelineVars, stop_scheduler,
                    schedule_jobs, active_topic, last_execution_time,
                    next_execution_time, tjob, tsleep >>

\* line 113: while not stop_scheduler.is_set()
lib_scheduler_loop_L113(t) ==
    /\ tpc[t] = "L113"
    /\ LibGoto(t, IF stop_scheduler THEN "L118" ELSE "L114")
    /\ UNCHANGED << schedulerVars, pipelineVars, libGlobals, lib_nthreads,
                    tjob, tsleep, wpc, wcall >>

\* line 114: schedule.run_pending() finds no job that is due and line 116
\* begins its sleep, or it finds one and calls it (at most one job is due
\* in one pass).
lib_scheduler_loop_L114(t) ==
    /\ tpc[t] = "L114"
    /\ \/ /\ LibGoto(t, "L116")
          /\ tsleep' = [tsleep EXCEPT ![t] = SleepTicks]
          /\ UNCHANGED tjob
       \/ \E k \in 1..Len(schedule_jobs) :
             /\ tjob' = [tjob EXCEPT ![t] = schedule_jobs[k]]
             /\ LibGoto(t, "L33")
             /\ UNCHANGED tsleep
    /\ UNCHANGED << schedulerVars, pipelineVars, libGlobals, lib_nthreads,
                    wpc, wcall >>

\* run_graph_job, lines 33-40, called by run_pending: a ValueError of line
\* 40 goes through run_pending and scheduler_loop, which catch nothing, and
\* ends the thread.
lib_scheduler_loop_L33(t) ==
    /\ tpc[t] = "L33"
    /\ \E hour \in Hours :
          /\ run_graph_job_times(hour)
          /\ LibGoto(t, IF replace_hour_raises(hour) THEN "raised" ELSE "L56")
    /\ UNCHANGED << schedulerVars, pipelineVars, stop_scheduler, lib_thread,
                    schedule_jobs, active_topic, lib_nthreads, tjob, tsleep,
                    wpc, wcall >>

\* lines 43-69 of the job, then line 116 begins its sleep.
lib_scheduler_loop_L56(t) ==
    /\ tpc[t] = "L56"
    /\ \E outcome \in InvokeOutcomes :
          active_topic' = IF outcome = "ok" THEN tjob[t] ELSE active_topic
    /\ LibGoto(t, "L116")
    /\ tsleep' = [tsleep EXCEPT ![t] = SleepTicks]
    /\ UNCHANGED << schedulerVars, pipelineVars, stop_scheduler, lib_thread,
                    schedule_jobs, last_execution_time, next_execution_time,
                    lib_nthreads, tjob, wpc, wcall >>

\* line 116: time.sleep(10) is over.
lib_scheduler_loop_L116(t) ==
    /\ tpc[t] = "L116"
    /\ tsleep[t] = 0
    /\ LibGoto(t, "L113")
    /\ UNCHANGED << schedulerVars, pipelineVars, libGlobals, lib_nthreads,
                    tjob, tsleep, wpc, wcall >>

\* lines 117-118: schedule.clear(); the thread ends.
lib_scheduler_loop_L118(t) ==
    /\ tpc[t] = "L118"
    /\ schedule_jobs' = << >>
    /\ LibGoto(t, "done")
    /\ UNCHANGED << schedulerVars, pipelineVars, stop_scheduler, lib_thread,
                    active_topic, last_execution_time, next_execution_time,
                    lib_nthreads, tjob, tsleep, wpc, wcall >>

\* 5 seconds pass: for every sleep and for the join that are not over.  No
\* sleep and no join waits longer than its time.
Sleeping(t) == tpc[t] = "L116"
LibTick ==
    /\ \A t \in LibLoopIds : Sleeping(t) => tsleep[t] > 0
    /\ wpc = "L135" => wcall.join > 0
    /\ wpc = "L135" \/ \E t \in LibLoopIds : Sleeping(t)
    /\ tsleep' = [t \in LibLoopIds |->
                     IF Sleeping(t) THEN tsleep[t] - 1 ELSE tsleep[t]]
    /\ wcall' = IF wpc = "L135" THEN [wcall EXCEPT !.join = @ - 1] ELSE wcall
    /\ UNCHANGED << schedulerVars, pipelineVars, libGlobals, lib_nthreads,
                    tpc, tjob, wpc >>

lib_scheduler_loop(t) ==
    \/ lib_scheduler_loop_L113(t)
    \/ lib_scheduler_loop_L114(t)
    \/ lib_scheduler_loop_L33(t)
    \/ lib_scheduler_loop_L56(t)
    \/ lib_scheduler_loop_L116(t)
    \/ lib_scheduler_loop_L118(t)

LibNext ==
    \/ LibCallStart
    \/ LibCallStop
    \/ LibStop_L132
    \/ LibStop_L134
    \/ LibStop_L135
    \/ LibStop_L142
    \/ LibStop_L145
    \/ LibStart_L94
    \/ LibStart_L98
    \/ LibStart_L56
    \/ LibStart_L103
    \/ LibStart_L120
    \/ LibStart_L121
    \/ \E t \in LibLoopIds : lib_scheduler_loop(t)
    \/ LibTick

LibSpec == Init /\ [][LibNext]_vars

\* ------------------------------------------------------------------ claims
LiveLoops == {l \in LoopIds : CanStillRun(l)}

\* A call of "call" by c has just returned "value".
Returned(c, call, value) ==
    cpc[c] = "ret" /\ clast[c] = call /\ cret[c] = value

C2_StopNeverBlocksForever ==
    \A c \in Callers :
        cpc[c] \in StopLabels =>
            \/ ENABLED stop_scheduling(c)
            \/ scheduler_lock \notin {NoThread, c}

\* The step of caller c that leaves the statement labelled "label".
Leaves(c, label) == cpc[c] = label /\ cpc'[c] # label

C4_StopWhenInactive ==
    [][\A c \in Callers :
          /\ Leaves(c, "P228") =>
                UNCHANGED << scheduler_state, stop_event, scheduler_thread >>
          /\ (Leaves(c, "P229") /\ ~scheduler_state.active) =>
                /\ cpc'[c] = "ret" /\ clast'[c] = "stop" /\ ~cret'[c]
                /\ UNCHANGED << scheduler_state, stop_event, scheduler_thread >>]_vars

\* A stop call has returned False after a schedule had run and ended.
C4_Witness ==
    /\ \E c \in Callers : Returned(c, "stop", FALSE)
    /\ ~scheduler_state.active
    /\ scheduler_thread # NoLoop

\* C5: stop_scheduling is idempotent: every call of it returns, and it
\* returns with the schedule inactive, so that a stop called next (no start
\* between) returns False and changes nothing (C4).
C5_StopIdempotent ==
    \A c \in Callers :
        (cpc[c] = "P228") ~> (cpc[c] = "ret" /\ clast[c] = "stop"
                                /\ ~scheduler_state.active)

C7_InactiveHasNoNextRun ==
    ~scheduler_state.active => scheduler_state.next_execution = NoTime

\* The schedule is inactive after a loop thread has run a task and ended.
C7_Witness ==
    /\ ~scheduler_state.active
    /\ scheduler_state.last_execution # NoTime
    /\ \E l \in LoopIds : lpc[l] \in {"exit", "dead"}

\* Every run start in the model's time can be advanced by the interval.
ValidInterval(interval_hours) ==
    \A t \in 0..MaxClock : t + interval_hours <= DateTimeMax

\* The dict d reports an active schedule with the arguments args.
Echoes(d, args) ==
    /\ d.active
    /\ d.topic = args.topic
    /\ d.user_email = args.user_email
    /\ d.interval_hours = args.interval_hours

\* C8 as claimed: when a start_scheduling call returned True and no stop was
\* called since, get_active_state returns active = true with the topic,
\* user_email and interval_hours of that call.
C8_StateEchoesStart ==
    [][\A c \in Callers :
          (Leaves(c, "G277") /\ last_started # NoArgs /\ ~stop_called) =>
              Echoes(Items(csnap[c])', last_started)]_vars

\* C8 as amended: the same, for an interval that every run start can be
\* advanced by without leaving the range of datetime.
C8_StateEchoesValidStart ==
    [][\A c \in Callers :
          (/\ Leaves(c, "G277")
           /\ last_started # NoArgs
           /\ ~stop_called
           /\ ValidInterval(last_started.interval_hours)) =>
              Echoes(Items(csnap[c])', last_started)]_vars

\* get_active_state has returned the arguments of the start, after the first
\* run of the schedule has begun and with no stop called.
C8_Witness ==
    \E c \in Callers :
        /\ cpc[c] = "ret" /\ clast[c] = "get"
        /\ last_started # NoArgs
        /\ ~stop_called
        /\ Echoes(Items(csnap[c]), last_started)
        /\ Items(csnap[c]).last_execution # NoTime

\* C9: after start_scheduling has returned True, last_execution eventually
\* becomes non-nil (threads that can run do run).
C9_LastExecutionEventuallySet ==
    \A c \in Callers :
        Returned(c, "start", TRUE) ~> (scheduler_state.last_execution # NoTime)

\* C10: each time the loop writes next_execution, the value is the start
\* instant of the run it started last, which is also last_execution, plus
\* interval_hours.
C10_NextIsLastStartPlusInterval ==
    [][\A l \in LoopIds :
          (lpc[l] = "L126" /\ lpc'[l] # "L126") =>
              /\ scheduler_state'.last_execution = isoformat(task_start_time[l])
              /\ scheduler_state'.next_execution =
                    isoformat(task_start_time[l] + largs[l].interval_hours)]_vars

\* next_execution has been written after a run that failed and during which
\* the clock advanced.
C10_Witness ==
    \E l \in LoopIds :
        /\ lpc[l] = "L130"
        /\ scheduler_state.status_message = TaskStatus("error")
        /\ now > task_start_time[l]
        /\ scheduler_state.next_execution =
              isoformat(task_start_time[l] + largs[l].interval_hours)

\* The statuses lines 78 and 85 write for a run that failed.
FailedStatuses == {TaskStatus("error"), TaskStatus("raised")}

\* The step of loop thread l that leaves the statement labelled "label".
LoopLeaves(l, label) == lpc[l] = label /\ lpc'[l] # label

\* C11 as claimed: after a run that returned an error or raised, the loop
\* thread does not terminate: it goes on to write next_execution (line 126).
C11_LoopSurvivesEveryFailedRun ==
    [][\A l \in LoopIds :
          (LoopLeaves(l, "L116")
              /\ scheduler_state.status_message \in FailedStatuses) =>
                  /\ lpc'[l] = "L126"
                  /\ scheduler_state'.active]_vars

\* C11 as amended, for a loop whose interval every run start can be advanced
\* by: a run that returns an error or raises only writes a status and the
\* loop returns to line 113; the loop thread never reaches its "except" or
\* its "finally", "active" stays true and the stop event clear while it is
\* alive; after the failed run it writes next_execution = last_execution +
\* interval; its wait ends as soon as the next run time is reached, without
\* the lock; and it then starts the next run.
C11_LoopSurvivesFailedRun ==
    /\ [](\A l \in LoopIds :
            (is_alive(l) /\ ValidInterval(largs[l].interval_hours)) =>
                /\ CanStillRun(l) /\ lpc[l] # "L149"
                /\ scheduler_state.active
                /\ ~stop_event
                /\ (lpc[l] = "L133" /\ now >= next_run_time[l]) =>
                        ENABLED Loop_L133(l))
    /\ [][\A l \in LoopIds :
            ValidInterval(largs[l].interval_hours) =>
                /\ (LoopLeaves(l, "L71") /\ result[l] \in {"error", "raised"}) =>
                        /\ lpc'[l] = "L113"
                        /\ scheduler_state'.status_message \in FailedStatuses
                        /\ scheduler_state'.active
                /\ LoopLeaves(l, "L113") => lpc'[l] = "L116"
                /\ (LoopLeaves(l, "L116")
                      /\ scheduler_state.status_message \in FailedStatuses) =>
                        lpc'[l] = "L126"
                /\ (LoopLeaves(l, "L126")
                      /\ scheduler_state.status_message \in FailedStatuses) =>
                        /\ scheduler_state'.next_execution =
                              isoformat(task_start_time[l]
                                          + largs[l].interval_hours)
                        /\ scheduler_state'.active
                /\ LoopLeaves(l, "L133") => lpc'[l] = "L139"
                /\ LoopLeaves(l, "L139") => lpc'[l] = "L39"]_vars

\* After a run in which graph.invoke raised, the loop has written
\* next_execution, the schedule is active, and the next run time is reached.
C11_Witness ==
    \E l \in LoopIds :
        /\ lpc[l] = "L130"
        /\ scheduler_state.status_message = TaskStatus("raised")
        /\ scheduler_state.active
        /\ scheduler_state.next_execution = isoformat(next_run_time[l])
        /\ now >= next_run_time[l]

\* The step by which a start_scheduling call of c returns False.
StartReturnsFalse(c) ==
    /\ cpc[c] \in StartLabels
    /\ cpc'[c] = "ret" /\ clast'[c] = "start" /\ ~cret'[c]

WaitsHoldingLock(c) == scheduler_lock = c /\ cpc[c] \in {"S187", "P234"}

\* C13: no thread waits on a thread join, on the stop event, on a pipeline
\* run or on a second acquisition of _scheduler_lock while it holds
\* _scheduler_lock.  (The loop thread takes the lock only for blocks of
\* assignments; what is left to state is about the callers.)
C13_NoWaitWhileHoldingLock == \A c \in Callers : ~WaitsHoldingLock(c)

\* A loop thread is inside graph.invoke (line 67) or inside its wait for
\* the next run time (lines 133-137).
LoopRunsOrWaits == \E l \in LoopIds : lpc[l] \in {"L67", "L133"}

\* C14: while a loop thread is inside graph.invoke or inside its wait for the
\* next run, the lock is free or held by a caller, never by the loop thread;
\* so a get_active_state call made then can return at once, or waits for a
\* caller that holds the lock, never for the loop.
C14_GetDoesNotWaitForLoop ==
    LoopRunsOrWaits =>
        /\ scheduler_lock \in {NoThread} \cup Callers
        /\ \A c \in Callers :
              cpc[c] = "G277" =>
                  \/ ENABLED get_active_state(c)
                  \/ \E d \in Callers \ {c} : scheduler_lock = d

\* get_active_state has returned a snapshot taken while the pipeline run
\* that is still in progress was in progress.
C14_Witness ==
    \E c \in Callers, l \in LoopIds :
        /\ lpc[l] = "L67"
        /\ cpc[c] = "ret" /\ clast[c] = "get"
        /\ Items(csnap[c]).status_message = "Task execution started."
        /\ Items(csnap[c]).last_execution = isoformat(task_start_time[l])
        /\ Items(csnap[c]) = scheduler_state

\* Caller c holds the dict that its get_active_state call returned.
HoldsSnapshot(c) == cpc[c] = "ret" /\ clast[c] = "get"

\* The statements of start_scheduling and stop_scheduling inside their
\* "with _scheduler_lock" blocks.
InsideLockedUpdate == {"S179", "S184", "S186", "S187", "S188", "S196", "S197",
                       "S208", "S217", "P229", "P234", "P237"}

\* C15: the dict get_active_state returns has the items _scheduler_state
\* has at the instant of the copy, an instant at which no start_scheduling
\* or stop_scheduling call is inside its locked update; it is an object of
\* the caller's own (so a write to it is not a write to _scheduler_state),
\* and what the caller reads in it does not change while the caller holds
\* it, whatever is written to _scheduler_state meanwhile.
C15_SnapshotIsACopy ==
    /\ [](\A c \in Callers : HoldsSnapshot(c) => csnap[c].obj = c)
    /\ [][\A c \in Callers :
            /\ Leaves(c, "G277") =>
                  /\ HoldsSnapshot(c)'
                  /\ Items(csnap[c])' = scheduler_state
                  /\ \A d \in Callers : cpc[d] \notin InsideLockedUpdate
            /\ (HoldsSnapshot(c) /\ HoldsSnapshot(c)') =>
                  Items(csnap[c])' = Items(csnap[c])]_vars

\* A caller holds a snapshot taken during a run, which no longer equals
\* _scheduler_state: the run has ended since and its status been written.
C15_Witness ==
    \E c \in Callers :
        /\ HoldsSnapshot(c)
        /\ Items(csnap[c]).status_message = "Task execution started."
        /\ Items(csnap[c]).active
        /\ scheduler_state.status_message = TaskStatus("ok")
        /\ scheduler_state.topic = Items(csnap[c]).topic

\* C16: when a signal is delivered, _handle_signal calls stop_scheduling and
\* returns, at whatever statement the main thread was interrupted (also
\* while it holds _scheduler_lock); once it has returned no loop thread can
\* start another run.  For a finite run: the main thread inside the handler
\* can take its next step, or waits for the lock while another thread holds
\* it (never for a lock that it holds itself); and at the step by which the
\* handler returns, no loop thread is left that can start a run.
C16_SignalHandlerStopsAndReturns ==
    /\ [](InHandler(MainThread) =>
            \/ ENABLED (stop_scheduling(MainThread) \/ HandlerReturn)
            \/ scheduler_lock \notin {NoThread, MainThread})
    /\ [][HandlerReturn => LiveLoops' = {}]_vars

\* A node of the graph runs.
NodeRuns == node' # node

\* The recipient and the sender of the run are such that send_email opens
\* an SMTP connection.
CanConnect ==
    /\ validate_email(graph_state.user_email)
    /\ ~Falsy(config.SENDER_EMAIL)
    /\ ~Falsy(config.SENDER_APP_PASSWORD)

\* C17: a node that runs when the error of the GraphState is set returns
\* the GraphState unchanged and calls nothing (neither a capability nor
\* send_email); the fetch node calls neither the generation nor the
\* delivery.  So when fetch fails, generation and delivery are called zero
\* times, and the error at the end of the run is the error of the first
\* node that set one.
C17_ErrorShortCircuits ==
    /\ [](node = "summarize" =>
            calls.generate = 0 /\ calls.send_email = 0 /\ calls.smtp = 0)
    /\ [][(NodeRuns /\ graph_state.error # NoError) =>
            (graph_state' = graph_state /\ calls' = calls)]_vars

\* The run has ended with the error of a search that raised: the generation
\* and the delivery, both configured, were not called.
C17_Witness ==
    /\ node = "END"
    /\ calls = [NoCalls EXCEPT !.search = 1]
    /\ graph_state.error =
          format_error_message(
              Concat(Lit("Tavily Search Error: ", {"tavily"}), Lit("boom", {})))
    /\ ~Falsy(config.GEMINI_API_KEY)
    /\ CanConnect

\* The summarize node runs on the GraphState of a fetch that ended without
\* error and kept no item.
SummarizeRunsOnNoItems ==
    /\ node = "summarize" /\ NodeRuns
    /\ graph_state.error = NoError
    /\ graph_state.tavily_results = << >>

\* The summary and the HTML are the canned message of lines 110-116.
HasCannedMessage(state) ==
    /\ state.structured_summary = no_results_msg(state.topic)
    /\ state.html_content = no_results_html(state.topic)

\* C18 as claimed: whenever fetch ends without error and with zero items,
\* summarize calls the generation zero times and sets the summary and the
\* HTML to the canned message with no error, and the run ends in success.
C18_NoItemsGivesCannedSuccess ==
    /\ [][SummarizeRunsOnNoItems =>
            /\ calls'.generate = 0
            /\ HasCannedMessage(graph_state')
            /\ graph_state'.error = NoError]_vars
    /\ []((node = "END" /\ HasCannedMessage(graph_state)) =>
            graph_state.error = NoError)

\* C18 as amended: when fetch ends without error and with zero items,
\* summarize calls the generation zero times; with the generation key set
\* it sets the summary and the HTML to the canned message with no error,
\* and without it sets the error of the missing key; a run that carries the
\* canned message ends in success exactly when the delivery succeeds (a
\* well-formed recipient, the sender's credentials set, and the connection
\* accepted), having called send_email once.
C18_NoItemsGivesCannedMessage ==
    /\ [][SummarizeRunsOnNoItems =>
            /\ calls' = calls /\ calls.generate = 0
            /\ IF Falsy(config.GEMINI_API_KEY)
                  THEN graph_state' =
                          [graph_state EXCEPT !.error = GeminiKeyMissing]
                  ELSE /\ HasCannedMessage(graph_state')
                       /\ graph_state'.error = NoError]_vars
    /\ []((node = "END" /\ HasCannedMessage(graph_state)) =>
            /\ calls.generate = 0
            /\ graph_state.error = NoError <=>
                  (CanConnect /\ SmtpAccepts(1) /\ calls.send_email = 1))

\* A run without search results has ended in success: the canned message
\* was sent, the generation never called.
C18_Witness ==
    /\ node = "END"
    /\ HasCannedMessage(graph_state)
    /\ graph_state.error = NoError
    /\ calls = [NoCalls EXCEPT !.search = 1, !.send_email = 1, !.smtp = 1]

\* C19: in the notify stage, when the delivery fails exactly k <
\* max_attempts times and then succeeds, the run is reported successful and
\* the delivery was attempted k + 1 times; when it fails max_attempts times
\* the run ends with a delivery error.  (k is delivery_failures; an attempt
\* is an SMTP connection.  The waits between attempts are left out:
\* send_email waits nowhere.)
C19_DeliveryRetriedUntilSuccess ==
    (node = "END" /\ calls.smtp > 0) =>
        IF delivery_failures < max_attempts
          THEN /\ graph_state.error = NoError
               /\ calls.smtp = delivery_failures + 1
          ELSE /\ graph_state.error = format_error_message(EmailSendingFailed)
               /\ calls.smtp = max_attempts

\* The recipients that are not empty and not of the form local@domain.tld:
\* no top-level domain, a top-level domain of one letter, no "@".
MalformedRecipients ==
    { << "a", "@", "a" >>,
      << "a", "@", "a", ".", "a" >>,
      << "a", "a", ".", "a", "a" >> }

\* The node named n runs.
StageRuns(n) == node = n /\ NodeRuns

\* C20: a stage that runs without its required configuration leaves the run
\* with an error and does not invoke its external capability, not even once:
\* fetch with an empty search key sets the Tavily key error and makes no
\* search; summarize with an empty generation key makes no generation call
\* and sets the Gemini key error (unless an earlier error is passed on);
\* notify with an empty recipient calls nothing and sets the recipient error
\* (unless an earlier error is passed on); notify with a malformed recipient
\* leaves an error, opens no SMTP connection and calls send_email at most
\* once.
C20_MissingConfigCallsNothing ==
    [][ /\ (StageRuns("fetch_data") /\ Falsy(config.TAVILY_API_KEY)) =>
              /\ graph_state'.error = TavilyKeyMissing
              /\ calls' = calls
        /\ (StageRuns("summarize") /\ Falsy(config.GEMINI_API_KEY)) =>
              /\ graph_state'.error # NoError
              /\ graph_state.error = NoError =>
                    graph_state'.error = GeminiKeyMissing
              /\ calls' = calls
        /\ (StageRuns("send_notification")
              /\ graph_state.user_email = << >>) =>
              /\ graph_state'.error # NoError
              /\ graph_state.error = NoError =>
                    graph_state'.error = RecipientMissing
              /\ calls' = calls
        /\ (StageRuns("send_notification")
              /\ graph_state.user_email \in MalformedRecipients) =>
              /\ graph_state'.error # NoError
              /\ graph_state.error = NoError =>
                    graph_state'.error = format_error_message(EmailSendingFailed)
              /\ calls'.smtp = 0
              /\ calls'.send_email <= 1
              /\ calls'.search = calls.search
              /\ calls'.generate = calls.generate
      ]_vars

\* A run with both keys and the sender's credentials, a server that accepts
\* every connection and a malformed recipient has ended: send_email was
\* called once, refused the recipient and opened no connection.
C20_Witness ==
    /\ node = "END"
    /\ graph_state.user_email \in MalformedRecipients
    /\ ~Falsy(config.SENDER_EMAIL) /\ ~Falsy(config.SENDER_APP_PASSWORD)
    /\ delivery_failures = 0
    /\ calls.search = 1
    /\ calls.generate = 2
    /\ calls.send_email = 1
    /\ calls.smtp = 0
    /\ graph_state.error = format_error_message(EmailSendingFailed)

\* The last generate_content call of the run is call number "call" and it
\* was blocked.
LastGenerateBlocked(call) ==
    /\ calls.generate = call
    /\ calls.generated[call] = "blocked"

\* C21: after a generation call that was blocked, be it the Markdown call
\* or the HTML call, the error of the run differs from every error that
\* the same call gives when it raises an exception.
C21_BlockedDiffersFromException ==
    \A call \in 1..2 :
        LastGenerateBlocked(call) =>
            \A e \in Exceptions : graph_state.error # exception_error(call, e)

\* C22: every run that the scheduler starts after another run begins from
\* a new GraphState: no results, empty summary and HTML, no error, whatever
\* the GraphState at the end of the earlier run held; and a run in its
\* first node has nothing but that.
C22_RunStartsFromFreshState ==
    /\ [](node = "fetch_data" =>
            /\ graph_state.tavily_results = << >>
            /\ graph_state.structured_summary = << >>
            /\ graph_state.html_content = << >>
            /\ graph_state.error = NoError)
    /\ [][(node = "END" /\ NodeRuns) =>
            graph_state' = GraphState(graph_state.topic,
                                      graph_state.user_email,
                                      graph_state'.timestamp)]_vars

\* A later run of a schedule whose every run fails (no search key) is about
\* to enter its first node: the error of the run before it is not there.
C22_Witness ==
    /\ Falsy(config.TAVILY_API_KEY)
    /\ node = "fetch_data"
    /\ graph_state.timestamp = LaterRunTime
    /\ graph_state.error = NoError

\* C23: after a fetch that succeeded, no two of the kept tavily_results
\* have the same URL, whatever the search returned.
C23_KeptResultsHaveDistinctUrls ==
    (node = "summarize" /\ graph_state.error = NoError) =>
        \A i, j \in 1..Len(graph_state.tavily_results) :
            i # j => graph_state.tavily_results[i].url
                        # graph_state.tavily_results[j].url

\* The run has ended with a delivery that failed: send_email was called and
\* returned False.
DeliveryFailed ==
    /\ node = "END"
    /\ calls.send_email > 0
    /\ graph_state.error # NoError

\* C24: the error of a run whose delivery failed does not depend on the
\* sender's address or password: it is one and the same value for every
\* such run, and no piece of its text is the address or the password.
C24_DeliveryErrorHidesSecrets ==
    DeliveryFailed =>
        /\ graph_state.error = format_error_message(EmailSendingFailed)
        /\ \A k \in 1..Len(graph_state.error.text) :
              graph_state.error.text[k]
                  \notin {config.SENDER_EMAIL, config.SENDER_APP_PASSWORD}

\* The server has refused the connection of a run whose sender has the
\* address s1 and the password s2.
C24_Witness ==
    /\ DeliveryFailed
    /\ calls.smtp = 1
    /\ config.SENDER_EMAIL = "s1"
    /\ config.SENDER_APP_PASSWORD = "s2"

\* The scheduler_loop threads that go on looping: alive and not past their
\* loop, while stop_scheduler is not set.
LibLooping ==
    {t \in LibLoopIds :
        ~stop_scheduler /\ tpc[t] \in {"L113", "L114", "L33", "L56", "L116"}}

\* C25: once a start_scheduling call of the schedule-library scheduler has
\* returned True, at most one scheduler_loop thread goes on looping: a
\* thread of an earlier schedule that was still alive when the join of line
\* 135 gave up does not go on once line 120 has cleared stop_scheduler.
C25_OneLoopAfterRestart ==
    (wpc = "idle" /\ wcall.last = "start" /\ wcall.ret = "True") =>
        Cardinality(LibLooping) <= 1

\* C26: run_graph_job never raises, at whatever hour it is called: no
\* start_scheduling call is left by an exception of its first run, and no
\* scheduler_loop thread is ended by an exception of a scheduled run.
C26_RunGraphJobNeverRaises ==
    /\ wcall.ret # "raised"
    /\ \A t \in LibLoopIds : tpc[t] # "raised"

\* Loop thread l starts a pipeline run: it enters _execute_task.
RunStarts(l) == lpc[l] # "L39" /\ lpc'[l] = "L39"

C28_ActiveWhileLoopLive == LiveLoops # {} => scheduler_state.active

\* A pipeline run is in progress while a stop_scheduling call has found
\* the schedule active and a start_scheduling call has been refused.
C28_Witness ==
    \E l \in LoopIds, c, d \in Callers :
        /\ lpc[l] = "L67"
        /\ cpc[c] = "P234"
        /\ Returned(d, "start", FALSE)
        /\ scheduler_state.active

\* Loop thread l is inside graph.invoke or writes the status of its result.
InvokeBegun(l) == lpc[l] \in {"L67", "L71"}

\* Loop thread l is inside _execute_task, past line 39: its run has started.
RunBegun(l) == lpc[l] \in {"L41", "L62", "L67", "L71"}

\* C29 as claimed: at any point of a run, from its start at line 39 on,
\* last_execution is the instant at which that run started.
C29_LastExecutionIsRunStartThroughout ==
    \A l \in LoopIds :
        RunBegun(l) =>
            scheduler_state.last_execution = isoformat(task_start_time[l])

\* C29 as amended: from the moment graph.invoke is called until the status of the
\* run is written, last_execution is the instant at which that run started
\* (task_start_time of line 39), and that is what a get_active_state call
\* made meanwhile returns.
C29_LastExecutionIsRunStart ==
    /\ [](\A l \in LoopIds :
            InvokeBegun(l) =>
                scheduler_state.last_execution = isoformat(task_start_time[l]))
    /\ [][\A l \in LoopIds, c \in Callers :
            (InvokeBegun(l) /\ Leaves(c, "G277")) =>
                Items(csnap[c])'.last_execution
                    = isoformat(task_start_time[l])]_vars

\* A caller holds a snapshot taken during the run in progress, a run that
\* started before the clock advanced: it reports the start of the run, not
\* the present time.
C29_Witness ==
    \E l \in LoopIds, c \in Callers :
        /\ lpc[l] = "L67"
        /\ HoldsSnapshot(c)
        /\ now > task_start_time[l]
        /\ Items(csnap[c]).last_execution = isoformat(task_start_time[l])
        /\ Items(csnap[c]).status_message = "Task execution started."

\* The status of scheduler_state changes in this step.
StatusChanges ==
    scheduler_state'.status_message # scheduler_state.status_message

C31_NextExecutionAfterLastExecution ==
    (/\ scheduler_state.next_execution # NoTime
     /\ scheduler_state.last_execution # NoTime
     /\ scheduler_state.interval_hours > 0) =>
        fromisoformat(scheduler_state.next_execution)
            > fromisoformat(scheduler_state.last_execution)

\* The step by which stop_scheduling returns True (lines 145-152).
LibStopReturnsTrue == wpc = "L145" /\ wpc' # "L145"

\* C32: when stop_scheduling found the loop thread idle between two runs
\* (inside the time.sleep of line 116), that thread has observed the stop
\* event and ended before the join of line 135 expires: it is not alive when
\* stop_scheduling returns True.
C32_IdleLoopEndsBeforeStopReturns ==
    [][(LibStopReturnsTrue /\ wcall.idle) =>
          ~lib_is_alive(lib_thread)]_vars

\* The loop threads that are inside graph.invoke (line 67).
RunsInProgress == {l \in LoopIds : lpc[l] = "L67"}

\* C33: at any time at most one loop thread is inside graph.invoke, whatever
\* start_scheduling and stop_scheduling calls have been made.
C33_AtMostOneRunInProgress == Cardinality(RunsInProgress) <= 1

\* The second loop thread of the behaviour is inside graph.invoke, after a
\* start_scheduling call has been refused and while a stop_scheduling call
\* is under way.
C33_Witness ==
    \E c, d \in Callers :
        /\ nthreads >= 2
        /\ lpc[nthreads] = "L67"
        /\ lpc[1] = "dead"
        /\ Returned(c, "start", FALSE)
        /\ cpc[d] \in StopLabels

\* The one send_email call of the run returned True: the recipient and the
\* sender's credentials were accepted and the server took the connection.
DeliverySucceeded ==
    /\ calls.send_email = 1
    /\ calls.smtp = 1
    /\ delivery_failures = 0
    /\ graph_state.user_email \notin MalformedRecipients \cup {<< >>}
    /\ config.SENDER_EMAIL # "" /\ config.SENDER_APP_PASSWORD # ""

\* C34: send_email is called at most once in a run; a run ends without
\* error only if send_email was called exactly once and returned success;
\* a run in which send_email was not called, or returned failure, ends with
\* an error.
C34_NoErrorOnlyIfDelivered ==
    /\ calls.send_email <= 1
    /\ node = "END" =>
          /\ graph_state.error = NoError => DeliverySucceeded
          /\ ~DeliverySucceeded => graph_state.error # NoError
          /\ calls.send_email = 0 => graph_state.error # NoError

\* A run has ended without error: after a search that kept an item and two
\* generation calls, its one send_email call opened one connection, which
\* the server accepted.
C34_Witness ==
    /\ node = "END"
    /\ graph_state.error = NoError
    /\ calls = [NoCalls EXCEPT !.search = 1, !.generate = 2,
                               !.generated = << "text", "text" >>,
                               !.send_email = 1, !.smtp = 1]
    /\ graph_state.tavily_results # << >>

\* The Markdown call of the run returned a text and its HTML call raised or
\* was blocked.
HtmlGenerationFailed ==
    /\ Len(calls.generated) = 2
    /\ calls.generated[1] = "text"
    /\ calls.generated[2] \in {"raises", "blocked"}

\* C35: when the Markdown call succeeded and the HTML call raised or was
\* blocked, the GraphState that summarize returns holds the Markdown
\* summary, an HTML body that wraps that summary, and an error; send_email
\* is not called and no SMTP connection is opened in the rest of the run.
C35_HtmlFailureKeepsSummaryAndStopsDelivery ==
    HtmlGenerationFailed =>
        /\ node \in {"send_notification", "END"}
        /\ graph_state.structured_summary = << "# markdown" >>
        /\ graph_state.html_content = << "<pre>", "# markdown", "</pre>" >>
        /\ graph_state.error # NoError
        /\ calls.send_email = 0
        /\ calls.smtp = 0

\* A run in which the HTML call was blocked has ended; the recipient, the
\* sender's credentials and the server would have let the delivery succeed.
C35_Witness ==
    /\ node = "END"
    /\ HtmlGenerationFailed
    /\ calls.generated[2] = "blocked"
    /\ graph_state.user_email = << "a", "@", "a", ".", "a", "a" >>
    /\ config.SENDER_EMAIL = "s1" /\ config.SENDER_APP_PASSWORD = "s2"
    /\ delivery_failures = 0
    /\ calls.send_email = 0

=============================================================================
